---- MODULE Spec2Model ----
(***************************************************************************)
(* A model of the pirates RPC library: the codec and the wire package of   *)
(* transport.rs, the stored operations of core.rs, the registry, dispatch  *)
(* and serve loop of server.rs, the client call path of client.rs and the  *)
(* TCP channel of transport.rs.                                            *)
(*                                                                         *)
(* Byte sequences are sequences of numbers 0..255.  The pickle codec is an *)
(* external crate; it is modelled as a self-describing tagged encoding     *)
(* (protocol header, one opcode per value, STOP), which is what the        *)
(* library relies on: decoding checks the header, the opcode of the        *)
(* expected type, the lengths and the terminator, and fails otherwise.     *)
(***************************************************************************)
EXTENDS Integers, Sequences, FiniteSets, TLC

VARIABLES
    rpcs,     \* RPCServer.rpcs: the registry, a set of entries [name, impl]
    state,    \* RPCServer.state: the shared state, [i |-> count]
    regs,     \* the add_rpc calls made so far, in order, as <<name, impl>>
    ncall,    \* RPCServer::call calls made so far by the test thread
    last,     \* the last add_rpc or call of the test thread and its outcome
    frame,    \* a wire package on its way through send_query / receive_query
    menu,     \* for each client task, the requests it draws its calls from
    listener, \* the TcpListener of serve: "unbound", "bound" or "closed"
    conns,    \* the TCP connections made so far, in the order of their connects
    srv,      \* the serve task: its position and the locals of handle_connection
    slog,     \* what the serve loop printed as an error, in order
    cl,       \* the client tasks: position and locals of call_client
    nconn,    \* call_client calls started so far
    fault,    \* the I/O error the environment has injected, "" while none
    lock,     \* the holders of the Mutex of the state
    canned    \* for each client task, its CannedTestingTransport

dispatchVars == <<rpcs, state, regs, ncall, last>>
serveVars == <<menu, listener, conns, srv, slog, cl, nconn, fault, lock,
               canned>>
vars == <<rpcs, state, regs, ncall, last, frame, canned, menu, listener, conns, srv,
          slog, cl, nconn, fault, lock, canned>>

(***************************************************************************)
(* Bounds of the model and constants of the program.                       *)
(***************************************************************************)
\* registrations made before dispatching (SpecDispatch)
MaxReg == 2
\* dispatches made through RPCServer::call (SpecDispatch)
MaxDispatch == 2
\* connections the clients open (Spec, SpecBig)
MaxConns == 3
\* the read buffer of TcpTransport::receive
BufLen == 1024
\* the count the tests start the state with
InitCount == 3
\* the length the test big_rpc_server asks MassiveRpc for
BigLen == 2000
\* the read buffers the longest request frame fills (SpecFull)
MaxFull == 2
\* the largest receive_times of a CannedTestingTransport (SpecCanned,
\* SpecChannel)
MaxReceive == 2

(***************************************************************************)
(* Values.  Every value is a record [t, n, s]: t the type, n a number (a   *)
(* usize, or the index of an enum variant), s a sequence (the characters   *)
(* of a string, the elements of a Vec<u32>).                               *)
(***************************************************************************)
Unit == [t |-> "unit", n |-> 0, s |-> <<>>]
Usize(k) == [t |-> "usize", n |-> k, s |-> <<>>]
Str(cs) == [t |-> "str", n |-> 0, s |-> cs]
VecU32(es) == [t |-> "vec", n |-> 0, s |-> es]

\* HelloWorldRpcName, in declaration order
RpcNames == <<"HelloWorld", "GetI", "IncrI", "MassiveRpc", "PreciseRpc">>
Names == {RpcNames[k] : k \in 1..Len(RpcNames)}
NameIndex(name) == CHOOSE k \in 1..Len(RpcNames) : RpcNames[k] = name
NameVal(name) == [t |-> "name", n |-> NameIndex(name), s |-> <<>>]

\* the strings of the tests, as character codes: "foo" and "bar"; Quoted is a
\* string holding a double quote and a backslash: a"\
Foo == <<102, 111, 111>>
Bar == <<98, 97, 114>>
Quoted == <<97, 34, 92>>
\* "Foo-Bar"
FooBar == <<70, 111, 111, 45, 66, 97, 114>>

(***************************************************************************)
(* The codec (TransportConfig::Pickle).                                    *)
(***************************************************************************)
Op == [PROTO |-> 128, VERSION |-> 3, STOP |-> 46, NONE |-> 78, BININT1 |-> 75,
       BININT2 |-> 77, UNICODE |-> 140, LONGUNICODE |-> 88, SHORTBYTES |-> 67, BYTES |-> 66,
       LIST |-> 93, VARIANT |-> 86, TUPLE2 |-> 134]

\* a length or number below 65536 in one or two bytes, little-endian
IntBody(k) ==
    IF k < 256 THEN <<Op.BININT1, k>>
    ELSE <<Op.BININT2, k % 256, (k \div 256) % 256>>

\* a byte string as a field of a record: opcode, length, the bytes
BytesBody(b) ==
    IF Len(b) < 256 THEN <<Op.SHORTBYTES, Len(b)>> \o b
    ELSE <<Op.BYTES, Len(b) % 256, (Len(b) \div 256) % 256>> \o b

ValueBody(v) ==
    CASE v.t = "unit" -> <<Op.NONE>>
      [] v.t = "usize" -> IntBody(v.n)
      [] v.t = "str" ->
           IF Len(v.s) < 256 THEN <<Op.UNICODE, Len(v.s)>> \o v.s
           ELSE <<Op.LONGUNICODE, Len(v.s) % 256, (Len(v.s) \div 256) % 256, 0, 0>>
                \o v.s
      [] v.t = "vec" -> <<Op.LIST>> \o IntBody(Len(v.s)) \o v.s
      [] v.t = "name" -> <<Op.VARIANT, v.n>>

Envelope(body) == <<Op.PROTO, Op.VERSION>> \o body \o <<Op.STOP>>

\* TransportConfig::serialize of a Query, a Response or a Name
Serialize(v) == Envelope(ValueBody(v))

\* TransportConfig::serialize of a TransportPackage
SerializePackage(name_bytes, query_bytes) ==
    Envelope(<<Op.TUPLE2>> \o BytesBody(name_bytes) \o BytesBody(query_bytes))

Failed == [ok |-> FALSE, v |-> Unit]
Got(v) == [ok |-> TRUE, v |-> v]

HasEnvelope(b) ==
    /\ Len(b) >= 3
    /\ b[1] = Op.PROTO
    /\ b[2] = Op.VERSION
    /\ b[Len(b)] = Op.STOP

Body(b) == SubSeq(b, 3, Len(b) - 1)

\* a number written by IntBody at the head of c: [ok, n, len]
ParseInt(c) ==
    IF Len(c) >= 2 /\ c[1] = Op.BININT1
      THEN [ok |-> TRUE, n |-> c[2], len |-> 2]
    ELSE IF Len(c) >= 3 /\ c[1] = Op.BININT2
      THEN [ok |-> TRUE, n |-> c[2] + 256 * c[3], len |-> 3]
    ELSE [ok |-> FALSE, n |-> 0, len |-> 0]

\* a byte string written by BytesBody at the head of c: [ok, b, len]
ParseBytes(c) ==
    LET hd == IF Len(c) >= 2 /\ c[1] = Op.SHORTBYTES
                THEN [ok |-> TRUE, n |-> c[2], len |-> 2]
              ELSE IF Len(c) >= 3 /\ c[1] = Op.BYTES
                THEN [ok |-> TRUE, n |-> c[2] + 256 * c[3], len |-> 3]
              ELSE [ok |-> FALSE, n |-> 0, len |-> 0]
    IN IF hd.ok /\ Len(c) >= hd.len + hd.n
         THEN [ok |-> TRUE, b |-> SubSeq(c, hd.len + 1, hd.len + hd.n),
               len |-> hd.len + hd.n]
         ELSE [ok |-> FALSE, b |-> <<>>, len |-> 0]

\* TransportConfig::deserialize::<T> where T is the type named by ty;
\* [ok |-> FALSE] stands for the Err that the code unwraps
Deserialize(b, ty) ==
    IF ~HasEnvelope(b) THEN Failed
    ELSE LET c == Body(b) IN
      CASE ty = "unit" ->
             IF c = <<Op.NONE>> THEN Got(Unit) ELSE Failed
        [] ty = "usize" ->
             LET p == ParseInt(c) IN
             IF p.ok /\ p.len = Len(c) THEN Got(Usize(p.n)) ELSE Failed
        [] ty = "str" ->
             IF Len(c) >= 2 /\ c[1] = Op.UNICODE /\ c[2] = Len(c) - 2
               THEN Got(Str(SubSeq(c, 3, Len(c))))
             ELSE IF /\ Len(c) >= 5 /\ c[1] = Op.LONGUNICODE
                     /\ c[2] + 256 * c[3] = Len(c) - 5
                     /\ c[4] = 0 /\ c[5] = 0
               THEN Got(Str(SubSeq(c, 6, Len(c))))
             ELSE Failed
        [] ty = "vec" ->
             IF Len(c) >= 1 /\ c[1] = Op.LIST
               THEN LET p == ParseInt(Tail(c)) IN
                    IF p.ok /\ p.n = Len(c) - 1 - p.len
                      THEN Got(VecU32(SubSeq(c, 2 + p.len, Len(c))))
                      ELSE Failed
               ELSE Failed
        [] ty = "name" ->
             IF Len(c) = 2 /\ c[1] = Op.VARIANT /\ c[2] \in 1..Len(RpcNames)
               THEN Got([t |-> "name", n |-> c[2], s |-> <<>>]) ELSE Failed

NoPackage == [ok |-> FALSE, name_bytes |-> <<>>, query_bytes |-> <<>>]

\* TransportConfig::deserialize::<TransportPackageOwned>
DeserializePackage(b) ==
    IF ~HasEnvelope(b) THEN NoPackage
    ELSE LET c == Body(b) IN
      IF Len(c) >= 1 /\ c[1] = Op.TUPLE2
        THEN LET f1 == ParseBytes(Tail(c)) IN
             IF ~f1.ok THEN NoPackage
             ELSE LET f2 == ParseBytes(SubSeq(c, 2 + f1.len, Len(c))) IN
                  IF f2.ok /\ 1 + f1.len + f2.len = Len(c)
                    THEN [ok |-> TRUE, name_bytes |-> f1.b, query_bytes |-> f2.b]
                    ELSE NoPackage
        ELSE NoPackage

(***************************************************************************)
(* The wire package: the frame of send_query and its decoding in           *)
(* receive_query.                                                          *)
(***************************************************************************)
\* Transport::send_query up to the send: the frame for (query_bytes, rpc_name)
PackageBytes(query_bytes, rpc_name) ==
    LET name_bytes == Serialize(NameVal(rpc_name))
    IN SerializePackage(name_bytes, query_bytes)

\* a receive_query that decodes the payload while it decodes the frame
DecodeQueryEager(bytes) ==
    LET package == DeserializePackage(bytes)
        name == Deserialize(package.name_bytes, "name")
        query == Deserialize(package.query_bytes, "unit")
    IN IF package.ok /\ name.ok /\ query.ok
         THEN [kind |-> "ok", name |-> RpcNames[name.v.n],
               query_bytes |-> Serialize(query.v)]
         ELSE [kind |-> "panic", name |-> "", query_bytes |-> <<>>]

\* Transport::receive_query after the receive: kind is "ok" with the
\* ReceivedQuery, or "panic" when one of the two deserialize calls unwraps Err
DecodeQuery(bytes) ==
    LET package == DeserializePackage(bytes) IN
    IF ~package.ok
      THEN [kind |-> "panic", name |-> "", query_bytes |-> <<>>]
      ELSE LET name == Deserialize(package.name_bytes, "name") IN
           IF ~name.ok
             THEN [kind |-> "panic", name |-> "", query_bytes |-> <<>>]
             ELSE [kind |-> "ok", name |-> RpcNames[name.v.n],
                   query_bytes |-> package.query_bytes]

(***************************************************************************)
(* Operations (core.rs) and the handlers of the tests (lib.rs).            *)
(***************************************************************************)
\* the RpcImpl values: the four of the tests, and Faulty, a handler that
\* changes the state and then returns Err
Impls == {"HelloWorld", "GetI", "IncrI", "Massive", "Faulty"}

\* StoredRpc::rpc_name: the name an RpcImpl was built with
ImplName(impl) ==
    CASE impl = "HelloWorld" -> "HelloWorld"
      [] impl = "GetI" -> "GetI"
      [] impl = "IncrI" -> "IncrI"
      [] impl = "Massive" -> "MassiveRpc"
      [] impl = "Faulty" -> "PreciseRpc"

\* the Query type Q and Response type R of an RpcImpl<Name, State, Q, R>
QueryType(impl) ==
    CASE impl = "HelloWorld" -> "str"
      [] impl = "GetI" -> "unit"
      [] impl = "IncrI" -> "unit"
      [] impl = "Massive" -> "usize"
      [] impl = "Faulty" -> "unit"

ResponseType(impl) ==
    CASE impl = "HelloWorld" -> "str"
      [] impl = "GetI" -> "usize"
      [] impl = "IncrI" -> "unit"
      [] impl = "Massive" -> "vec"
      [] impl = "Faulty" -> "unit"

NoErr == [variant |-> "", detail |-> <<"", "">>]
\* RpcError::Custom(format!("Rpc not found: {}", incoming_name))
NotFound(name) == [variant |-> "Custom", detail |-> <<"Rpc not found", name>>]
HandlerErr == [variant |-> "Custom", detail |-> <<"handler failed", "">>]
\* RpcError::TransportError(TransportError::<kind>(..))
TransportErr(kind) == [variant |-> "TransportError", detail |-> <<kind, "io">>]

RECURSIVE Decimal(_)
\* Display of a usize
Decimal(k) ==
    IF k < 10 THEN <<48 + k>> ELSE Decimal(k \div 10) \o <<48 + (k % 10)>>

RECURSIVE Escaped(_)
\* the characters with a backslash before every double quote and backslash
Escaped(cs) ==
    IF cs = <<>> THEN <<>>
    ELSE IF Len(cs) = 1
      THEN (IF Head(cs) \in {34, 92} THEN <<92, Head(cs)>> ELSE <<Head(cs)>>)
    ELSE LET half == Len(cs) \div 2 IN
         Escaped(SubSeq(cs, 1, half)) \o Escaped(SubSeq(cs, half + 1, Len(cs)))

\* Display of a String: the characters themselves
DisplayStr(cs) == cs

\* Debug of a String: quoted and escaped
DebugStr(cs) == <<34>> \o Escaped(cs) \o <<34>>

\* "Hello world: "
HelloPrefix == <<72, 101, 108, 108, 111, 32, 119, 111, 114, 108, 100, 58, 32>>

\* the closure of an RpcImpl applied to (state, q):
\* [ok, state (as the handler left it), resp, err]
Implement(impl, st, q) ==
    CASE impl = "HelloWorld" ->
           [ok |-> TRUE, state |-> st,
            resp |-> Str(HelloPrefix \o Decimal(st.i) \o <<58>> \o DebugStr(q.s)),
            err |-> NoErr]
      [] impl = "GetI" ->
           [ok |-> TRUE, state |-> st, resp |-> Usize(st.i), err |-> NoErr]
      [] impl = "IncrI" ->
           [ok |-> TRUE, state |-> [st EXCEPT !.i = st.i + 1], resp |-> Unit,
            err |-> NoErr]
      [] impl = "Massive" ->
           [ok |-> TRUE, state |-> st, resp |-> VecU32([k \in 1..q.n |-> 1]),
            err |-> NoErr]
      [] impl = "Faulty" ->
           [ok |-> FALSE, state |-> [st EXCEPT !.i = st.i + 1], resp |-> Unit,
            err |-> HandlerErr]

\* one handler invocation, as recorded in the outcome of a dispatch
Invocation(impl, st, q) == [impl |-> impl, i |-> st.i, q |-> q]

\* a call_of_bytes that runs the handler a second time on the state the first
\* run left
CallOfBytesTwice(impl, input_bytes, st) ==
    LET query == Deserialize(input_bytes, QueryType(impl)) IN
    IF ~query.ok
      THEN [kind |-> "panic", bytes |-> <<>>, err |-> NoErr, state |-> st,
            invoked |-> <<>>]
      ELSE LET first == Implement(impl, st, query.v)
               result == Implement(impl, first.state, query.v)
           IN [kind |-> IF result.ok THEN "ok" ELSE "err",
               bytes |-> IF result.ok THEN Serialize(result.resp) ELSE <<>>,
               err |-> result.err, state |-> result.state,
               invoked |-> <<Invocation(impl, st, query.v),
                             Invocation(impl, first.state, query.v)>>]

\* a call_of_bytes that answers with no bytes when the handler returns Err
CallOfBytesSwallow(impl, input_bytes, st) ==
    LET query == Deserialize(input_bytes, QueryType(impl)) IN
    IF ~query.ok
      THEN [kind |-> "panic", bytes |-> <<>>, err |-> NoErr, state |-> st,
            invoked |-> <<>>]
      ELSE LET result == Implement(impl, st, query.v) IN
           [kind |-> "ok",
            bytes |-> IF result.ok THEN Serialize(result.resp) ELSE <<>>,
            err |-> NoErr, state |-> result.state,
            invoked |-> <<Invocation(impl, st, query.v)>>]

\* a call_of_bytes that gives back the state as it was when the handler
\* returns Err
CallOfBytesRollback(impl, input_bytes, st) ==
    LET query == Deserialize(input_bytes, QueryType(impl)) IN
    IF ~query.ok
      THEN [kind |-> "panic", bytes |-> <<>>, err |-> NoErr, state |-> st,
            invoked |-> <<>>]
      ELSE LET result == Implement(impl, st, query.v) IN
           IF ~result.ok
             THEN [kind |-> "err", bytes |-> <<>>, err |-> result.err,
                   state |-> st,
                   invoked |-> <<Invocation(impl, st, query.v)>>]
             ELSE [kind |-> "ok", bytes |-> Serialize(result.resp),
                   err |-> NoErr, state |-> result.state,
                   invoked |-> <<Invocation(impl, st, query.v)>>]

\* StoredRpc::call_of_bytes for RpcImpl: the outcome
\* [kind, bytes, err, state, invoked]; kind "panic" is the unwrap of a failed
\* deserialize
CallOfBytes(impl, input_bytes, st) ==
    LET query == Deserialize(input_bytes, QueryType(impl)) IN
    IF ~query.ok
      THEN [kind |-> "panic", bytes |-> <<>>, err |-> NoErr, state |-> st,
            invoked |-> <<>>]
      ELSE LET result == Implement(impl, st, query.v) IN
           IF ~result.ok
             THEN [kind |-> "err", bytes |-> <<>>, err |-> result.err,
                   state |-> result.state,
                   invoked |-> <<Invocation(impl, st, query.v)>>]
             ELSE [kind |-> "ok", bytes |-> Serialize(result.resp),
                   err |-> NoErr, state |-> result.state,
                   invoked |-> <<Invocation(impl, st, query.v)>>]

(***************************************************************************)
(* The registry and dispatch (server.rs).  The HashMap is a set of         *)
(* entries [name, impl].                                                   *)
(***************************************************************************)
\* an insert that keeps the entry a name already has (HashMap's
\* entry().or_insert())
MapInsertKeep(map, name, impl) ==
    IF \E e \in map : e.name = name THEN map
    ELSE map \cup {[name |-> name, impl |-> impl]}

\* HashMap::insert
MapInsert(map, name, impl) ==
    {e \in map : e.name # name} \cup {[name |-> name, impl |-> impl]}

\* HashMap::get: the set of the values found (empty for None)
MapGet(map, name) == {e.impl : e \in {x \in map : x.name = name}}

\* a call that falls back to some registered operation when the name is not
\* registered
ServerCallFallback(map, incoming_bytes, incoming_name, st) ==
    LET found == MapGet(map, incoming_name)
        any == {e.impl : e \in map}
    IN IF found # {}
         THEN CallOfBytes(CHOOSE impl \in found : TRUE, incoming_bytes, st)
       ELSE IF any # {}
         THEN CallOfBytes(CHOOSE impl \in any : TRUE, incoming_bytes, st)
       ELSE [kind |-> "err", bytes |-> <<>>, err |-> NotFound(incoming_name),
             state |-> st, invoked |-> <<>>]

\* RPCServer::call
ServerCall(map, incoming_bytes, incoming_name, st) ==
    LET found == MapGet(map, incoming_name) IN
    IF found # {}
      THEN CallOfBytes(CHOOSE impl \in found : TRUE, incoming_bytes, st)
      ELSE [kind |-> "err", bytes |-> <<>>, err |-> NotFound(incoming_name),
            state |-> st, invoked |-> <<>>]

NoQuery == [kind |-> "", name |-> "", query_bytes |-> <<>>]
NoOutcome == [kind |-> "", bytes |-> <<>>, err |-> NoErr,
              state |-> [i |-> InitCount], invoked |-> <<>>]

(***************************************************************************)
(* The TCP channel (TcpTransport) and the network under it.  One direction *)
(* of a connection is a stream [wire, buf]: wire holds the bytes written    *)
(* and not yet arrived, buf the bytes arrived and not yet read.  The bytes *)
(* of one write arrive at once or in two pieces.                           *)
(***************************************************************************)
Min(a, b) == IF a < b THEN a ELSE b

EmptyStream == [wire |-> <<>>, buf |-> <<>>]

\* the sizes of the first piece when the network delivers len bytes in two
\* pieces: all but the last byte, and the sizes next to that of a read buffer
Cuts(len) == {BufLen - 1, BufLen, BufLen + 1, len - 1} \cap (1..(len - 1))

\* the sizes of the piece of a write of b that arrives first
Pieces(b) == {Len(b)} \cup Cuts(Len(b))

\* TcpTransport::send: write_all(b), of which the first n bytes arrive
Written(stream, b, n) ==
    [wire |-> stream.wire \o SubSeq(b, n + 1, Len(b)),
     buf |-> stream.buf \o SubSeq(b, 1, n)]

\* the arrival of the rest of a write
Delivered(stream) == [wire |-> <<>>, buf |-> stream.buf \o stream.wire]

\* stream.read(&mut buf) can return: bytes have arrived, or the peer has
\* closed and nothing is on its way
Readable(stream, peer_open) ==
    stream.buf # <<>> \/ (~peer_open /\ stream.wire = <<>>)

\* a receive that returns as soon as it has read all that has arrived
ReceiveTurnUntilDrained(return_bytes, stream) ==
    LET bytes_received == Min(Len(stream.buf), BufLen) IN
    [return_bytes |-> return_bytes \o SubSeq(stream.buf, 1, bytes_received),
     stream |-> [stream EXCEPT
                   !.buf = SubSeq(stream.buf, bytes_received + 1, Len(stream.buf))],
     done |-> bytes_received = Len(stream.buf)]

\* a receive that returns the bytes of its last read only
ReceiveTurnLastRead(return_bytes, stream) ==
    LET bytes_received == Min(Len(stream.buf), BufLen) IN
    [return_bytes |-> SubSeq(stream.buf, 1, bytes_received),
     stream |-> [stream EXCEPT
                   !.buf = SubSeq(stream.buf, bytes_received + 1, Len(stream.buf))],
     done |-> bytes_received = 0 \/ bytes_received < BufLen]

\* one turn of the loop of TcpTransport::receive when read returns Ok:
\* [return_bytes, stream, done]; done when the loop returns Ok(return_bytes)
ReceiveTurn(return_bytes, stream) ==
    LET bytes_received == Min(Len(stream.buf), BufLen) IN
    [return_bytes |-> return_bytes \o SubSeq(stream.buf, 1, bytes_received),
     stream |-> [stream EXCEPT
                   !.buf = SubSeq(stream.buf, bytes_received + 1, Len(stream.buf))],
     done |-> bytes_received = 0 \/ bytes_received < BufLen]

(***************************************************************************)
(* Requests, connections, the serve task and the client tasks.            *)
(***************************************************************************)
Clients == {1, 2}
\* the tasks that make one call and end
OneCall == {2}

\* a call of call_client(addr, q, rpc) with rpc: Rpc<Name, Q, R>; rt names R
Call(name, q, rt) == [kind |-> "call", name |-> name, q |-> q, rt |-> rt,
                      raw |-> <<>>]
\* a peer that is no RpcClient and writes the bytes raw
Raw(b) == [kind |-> "raw", name |-> "", q |-> Unit, rt |-> "", raw |-> b]
NoRequest == [kind |-> "", name |-> "", q |-> Unit, rt |-> "", raw |-> <<>>]

\* the calls of the test regular_server
TestCalls ==
    {Call("HelloWorld", Str(Foo), "str"), Call("GetI", Unit, "usize"),
     Call("IncrI", Unit, "unit")}

\* calls whose dispatch fails: a name that is not registered, a query of
\* another type than the operation's, a handler that returns Err
FailingCalls ==
    {Call("MassiveRpc", Usize(2), "vec"), Call("GetI", Str(Foo), "usize"),
     Call("PreciseRpc", Unit, "unit")}

\* frames that do not decode: no wire package, and a wire package whose name
\* bytes are no name
BadFrames == {Raw(<<0>>), Raw(SerializePackage(<<0>>, Serialize(Unit)))}

\* client 1 is the task of the test, with calls that succeed and calls that
\* fail; client 2 is another peer: it increments, or writes a bad frame
ServeMenu ==
    [c \in Clients |->
        IF c = 1 THEN TestCalls \cup FailingCalls
        ELSE BadFrames \cup {Call("IncrI", Unit, "unit")}]

\* the registry of the test regular_server, and Faulty under PreciseRpc
ServeRegistry ==
    {[name |-> "HelloWorld", impl |-> "HelloWorld"],
     [name |-> "GetI", impl |-> "GetI"],
     [name |-> "IncrI", impl |-> "IncrI"],
     [name |-> "PreciseRpc", impl |-> "Faulty"]}

\* the result of a client call: kind "ok" with the Response, "err" with the
\* RpcError, "panic" when the call unwound; "" while there is none
NoResult == [kind |-> "", v |-> Unit, err |-> NoErr]

\* a connection: owner is the client task that holds its client end (0 once
\* that end is dropped), req the request made on it; copen and sopen tell
\* whether the client's and the server's TcpStream still exist;
\* stage and fail record how far handle_connection got on it, seen the count
\* at its dispatch, ran the handlers its dispatch invoked, got the result of
\* the client's call
NewConn(c, req) ==
    [owner |-> c, req |-> req, c2s |-> EmptyStream, s2c |-> EmptyStream,
     copen |-> TRUE, sopen |-> TRUE, stage |-> "pending",
     fail |-> "", seen |-> 0, ran |-> <<>>, got |-> NoResult]

\* a connection both of whose ends are gone carries nothing any more
Settled(conn) ==
    IF ~conn.copen /\ ~conn.sopen
      THEN [conn EXCEPT !.c2s = EmptyStream, !.s2c = EmptyStream]
      ELSE conn

IdleServer == [pc |-> "start", cur |-> 0, return_bytes |-> <<>>,
               received_query |-> NoQuery, result_bytes |-> <<>>]

IdleClient == [pc |-> "idle", req |-> NoRequest, conn |-> 0,
               return_bytes |-> <<>>, result |-> NoResult, sends |-> 0,
               receives |-> 0]

\* a CannedTestingTransport that is not used
NoCanned == [always_respond_with |-> <<>>, receive_times |-> 0]

\* serve and the clients before they start, with the requests to draw from
InitServe(requests) ==
    /\ menu = requests
    /\ listener = "unbound"
    /\ conns = <<>>
    /\ srv = IdleServer
    /\ slog = <<>>
    /\ cl = [c \in Clients |-> IdleClient]
    /\ nconn = 0
    /\ fault = ""
    /\ lock = {}
    /\ canned = [c \in Clients |-> NoCanned]

InitServeIdle == InitServe([c \in Clients |-> {}])

(***************************************************************************)
(* SpecFrame: the wire package round trip, as in the test                  *)
(* transport_package_round_trip, for every name and payload.               *)
(***************************************************************************)
\* byte sequences that are no encoding of any value
Garbage ==
    {<<>>, <<0>>, <<Op.PROTO, Op.VERSION, Op.NONE>>, Serialize(Unit) \o <<0>>,
     <<Op.PROTO, Op.VERSION, Op.STOP>>}

\* encodings of queries of the tests
QueryBytes ==
    {Serialize(Str(Foo)), Serialize(Str(Bar)), Serialize(Str(Quoted)),
     Serialize(Str(<<>>)), Serialize(Unit), Serialize(Usize(0)),
     Serialize(Usize(2)), Serialize(Usize(BigLen))}

\* payloads longer than the one-byte length of a short byte string
LongBytes ==
    {Serialize(VecU32([k \in 1..300 |-> 1])), [k \in 1..256 |-> 0]}

FramePayloads == QueryBytes \cup Garbage \cup LongBytes 
    \cup {PackageBytes(Serialize(Unit), "GetI")}

NoFrame == [pc |-> "off", name |-> "", payload |-> <<>>, bytes |-> <<>>,
            out |-> NoQuery]

InitDispatchIdle ==
    /\ rpcs = {}
    /\ state = [i |-> InitCount]
    /\ regs = <<>>
    /\ ncall = 0
    /\ last = [op |-> "none", name |-> "", impl |-> "", bytes |-> <<>>,
               pre |-> [i |-> InitCount],
               out |-> [kind |-> "", bytes |-> <<>>, err |-> NoErr,
                        state |-> [i |-> InitCount], invoked |-> <<>>]]

InitFrame ==
    /\ InitDispatchIdle
    /\ InitServeIdle
    /\ frame \in {[pc |-> "start", name |-> n, payload |-> b, bytes |-> <<>>,
                   out |-> NoQuery] : n \in Names, b \in FramePayloads}

\* the client side: send_query builds the frame
FrameSend ==
    /\ frame.pc = "start"
    /\ frame' = [frame EXCEPT !.pc = "sent",
                              !.bytes = PackageBytes(frame.payload, frame.name)]
    /\ UNCHANGED <<dispatchVars, serveVars>>

\* the server side: receive_query decodes the frame
FrameReceive ==
    /\ frame.pc = "sent"
    /\ frame' = [frame EXCEPT !.pc = "received", !.out = DecodeQuery(frame.bytes)]
    /\ UNCHANGED <<dispatchVars, serveVars>>

NextFrame == FrameSend \/ FrameReceive

SpecFrame == InitFrame /\ [][NextFrame]_vars

\* C8: building the frame for (name, payload) as send_query does and decoding
\* it as receive_query does recovers the same name and the same payload bytes,
\* whatever the payload bytes are (they are carried, not decoded).
C8_PackageRoundTrip ==
    frame.pc = "received" =>
        /\ frame.out.kind = "ok"
        /\ frame.out.name = frame.name
        /\ frame.out.query_bytes = frame.payload

\* a frame whose payload decodes to no query type went through the round trip
C8_Witness ==
    /\ frame.pc = "received"
    /\ frame.payload \in Garbage
    /\ frame.name = "IncrI"
    /\ frame.out.query_bytes = frame.payload

(***************************************************************************)
(* SpecDispatch: a thread that owns an RPCServer, registers operations and *)
(* dispatches through RPCServer::call, as the test just_server_test does.  *)
(***************************************************************************)
\* the queries dispatched, and the payloads: their encodings and two byte
\* sequences that decode to no query type
Queries == {Str(Foo), Unit, Usize(2)}
DispatchPayloads ==
    {Serialize(q) : q \in Queries} \cup {<<>>, Serialize(Unit) \o <<0>>}

InitDispatch ==
    /\ InitDispatchIdle
    /\ InitServeIdle
    /\ frame = NoFrame

\* RPCServer::add_rpc(name, rpc_impl)
AddRpc(name, impl) ==
    /\ Len(regs) < MaxReg
    /\ last.out.kind # "panic"
    /\ rpcs' = MapInsert(rpcs, name, impl)
    /\ regs' = Append(regs, <<name, impl>>)
    /\ last' = [op |-> "add", name |-> name, impl |-> impl, bytes |-> <<>>,
                pre |-> state, out |-> NoOutcome]
    /\ UNCHANGED <<state, ncall, frame, serveVars>>

\* RPCServer::call(incoming_bytes, incoming_name) called by the test thread;
\* a panic inside the call ends the thread
DispatchCall(name, bytes) ==
    /\ ncall < MaxDispatch
    /\ last.out.kind # "panic"
    /\ LET out == ServerCall(rpcs, bytes, name, state) IN
         /\ state' = out.state
         /\ last' = [op |-> "call", name |-> name, impl |-> "", bytes |-> bytes,
                     pre |-> state, out |-> out]
    /\ ncall' = ncall + 1
    /\ UNCHANGED <<rpcs, regs, frame, serveVars>>

\* the names operations are registered under; the other two stay unregistered
RegNames == {"HelloWorld", "GetI", "IncrI"}

Register == \E name \in RegNames, impl \in Impls : AddRpc(name, impl)
Dispatch == \E name \in Names, bytes \in DispatchPayloads : DispatchCall(name, bytes)

NextDispatch == Register \/ Dispatch

SpecDispatch == InitDispatch /\ [][NextDispatch]_vars

\* the handler that the last registration under name gave, "" when none
RECURSIVE LastRegistered(_, _)
LastRegistered(rs, name) ==
    IF rs = <<>> THEN ""
    ELSE IF rs[Len(rs)][1] = name THEN rs[Len(rs)][2]
    ELSE LastRegistered(SubSeq(rs, 1, Len(rs) - 1), name)

\* C1: a dispatch of a name that is not registered returns the not-found
\* failure, invokes no handler and leaves the state and the registry as they
\* were, whatever the registry, the payload bytes and the state are.
C1_UnknownName ==
    [][(ncall' = ncall + 1 /\ LastRegistered(regs, last'.name) = "") =>
          /\ last'.out.kind = "err"
          /\ last'.out.err = NotFound(last'.name)
          /\ last'.out.bytes = <<>>
          /\ last'.out.invoked = <<>>
          /\ state' = state
          /\ rpcs' = rpcs]_vars

\* an unregistered name was dispatched with bytes that decode to no query
\* type, while other operations were registered and the count had changed
C1_Witness ==
    /\ last.op = "call"
    /\ LastRegistered(regs, last.name) = ""
    /\ rpcs # {}
    /\ last.bytes = <<>>
    /\ state.i = InitCount + 1
    /\ last.out.err = NotFound(last.name)

\* C2: with h registered under N, dispatching N with the encoding of a valid
\* query q invokes h once on (state, q) and no other handler, returns bytes
\* that decode to the response h returned, and leaves the state as h left it.
C2_DispatchCorrect ==
    \A h \in Impls, q \in Queries :
        (/\ last.op = "call"
         /\ LastRegistered(regs, last.name) = h
         /\ q.t = QueryType(h)
         /\ last.bytes = Serialize(q)) =>
            LET r == Implement(h, last.pre, q) IN
            /\ last.out.invoked = <<Invocation(h, last.pre, q)>>
            /\ state = r.state
            /\ r.ok => /\ last.out.kind = "ok"
                       /\ Deserialize(last.out.bytes, ResponseType(h)) = Got(r.resp)
            /\ ~r.ok => /\ last.out.kind = "err"
                        /\ last.out.err = r.err

\* IncrI, registered under the name GetI, was dispatched with the unit query
\* when the count was 4: it ran once and the count is 5
C2_Witness ==
    /\ last.op = "call"
    /\ last.name = "GetI"
    /\ LastRegistered(regs, "GetI") = "IncrI"
    /\ last.bytes = Serialize(Unit)
    /\ last.pre.i = InitCount + 1
    /\ state.i = InitCount + 2
    /\ last.out.kind = "ok"
    /\ Len(last.out.invoked) = 1

Init ==
    /\ rpcs = ServeRegistry
    /\ state = [i |-> InitCount]
    /\ regs = <<>>
    /\ ncall = 0
    /\ last = [op |-> "none", name |-> "", impl |-> "", bytes |-> <<>>,
               pre |-> [i |-> InitCount], out |-> NoOutcome]
    /\ frame = NoFrame
    /\ InitServe(ServeMenu)

(***************************************************************************)
(* Spec: RPCServer::serve in one task, clients calling call_client in      *)
(* others, and the network between them, as in the test regular_server.    *)
(* The environment makes at most one I/O call fail in a behaviour (fault). *)
(***************************************************************************)
\* a panic of the serve task drops the listener and every stream it holds
Crashed(cs) == [k \in DOMAIN cs |-> Settled([cs[k] EXCEPT !.sopen = FALSE])]

\* the connections waiting to be accepted
Pending == {k \in DOMAIN conns : conns[k].stage = "pending"}

\* handle_connection is left: its transport is dropped, serve loops
Dropped(conn) == Settled([conn EXCEPT !.sopen = FALSE])

\* serve: TcpListener::bind(listen_on).await.unwrap(), bind returning Ok
ServerBind ==
    /\ srv.pc = "start"
    /\ listener' = "bound"
    /\ srv' = [srv EXCEPT !.pc = "accept"]
    /\ UNCHANGED <<dispatchVars, frame, lock, canned, menu, conns, slog, cl, nconn, fault>>

\* a serve that prints the Err of bind and goes on to its loop
ServerBindFailLogged ==
    /\ srv.pc = "start"
    /\ srv' = [srv EXCEPT !.pc = "accept"]
    /\ slog' = Append(slog, "bind")
    /\ listener' = listener
    /\ UNCHANGED <<dispatchVars, frame, lock, canned, menu, conns, cl, nconn, fault>>

\* serve: bind returning Err, which unwrap turns into a panic
ServerBindFail ==
    /\ srv.pc = "start"
    /\ srv' = [srv EXCEPT !.pc = "panicked"]
    /\ UNCHANGED <<dispatchVars, frame, lock, canned, menu, listener, conns, slog, cl, nconn,
                   fault>>

\* a serve that accepts the next connection while the response of the one
\* at hand is still to be written
ServerAcceptEarly ==
    /\ srv.pc \in {"accept", "respond"}
    /\ Pending # {}
    /\ LET k == CHOOSE j \in Pending : \A m \in Pending : j <= m IN
         /\ conns' = [conns EXCEPT ![k].stage = "accepted"]
         /\ srv' = [IdleServer EXCEPT !.pc = "receive", !.cur = k]
    /\ UNCHANGED <<dispatchVars, frame, lock, canned, menu, listener, slog, cl, nconn, fault>>

\* serve: listener.accept() returning Ok((tcp_stream, _from)), and the head of
\* handle_connection up to the receive
ServerAccept ==
    /\ srv.pc = "accept"
    /\ Pending # {}
    /\ LET k == CHOOSE j \in Pending : \A m \in Pending : j <= m IN
         /\ conns' = [conns EXCEPT ![k].stage = "accepted"]
         /\ srv' = [srv EXCEPT !.pc = "receive", !.cur = k]
    /\ UNCHANGED <<dispatchVars, frame, lock, canned, menu, listener, slog, cl, nconn, fault>>

\* serve: listener.accept() returning Err, which is printed
ServerAcceptFail ==
    /\ srv.pc = "accept"
    /\ fault = ""
    /\ fault' = "accept"
    /\ slog' = Append(slog, "accept")
    /\ UNCHANGED <<dispatchVars, frame, lock, canned, menu, listener, conns, srv, cl, nconn>>

\* a receive with a timeout: a read that waits for a peer that sends nothing
\* gives ReceiveError, which serve prints
ServerReadTimeout ==
    /\ srv.pc = "receive"
    /\ IF Readable(conns[srv.cur].c2s, conns[srv.cur].copen)
         THEN LET turn == ReceiveTurn(srv.return_bytes, conns[srv.cur].c2s) IN
              /\ conns' = [conns EXCEPT
                             ![srv.cur].c2s = turn.stream,
                             ![srv.cur].stage = IF turn.done THEN "received" ELSE @]
              /\ srv' = [srv EXCEPT
                           !.return_bytes = turn.return_bytes,
                           !.pc = IF turn.done THEN "decode" ELSE @]
              /\ slog' = slog
         ELSE /\ conns' = [conns EXCEPT
                   ![srv.cur] = Dropped([conns[srv.cur] EXCEPT !.fail = "receive"])]
              /\ srv' = [IdleServer EXCEPT !.pc = "accept"]
              /\ slog' = Append(slog, "ReceiveError")
    /\ UNCHANGED <<dispatchVars, frame, lock, canned, menu, listener, cl, nconn, fault>>

\* a receive that takes a first read of no bytes for a failure of the
\* transport: ReceiveError, which serve prints
ServerReadEmptyIsError ==
    /\ srv.pc = "receive"
    /\ Readable(conns[srv.cur].c2s, conns[srv.cur].copen)
    /\ LET turn == ReceiveTurn(srv.return_bytes, conns[srv.cur].c2s) IN
       IF turn.done /\ turn.return_bytes = <<>>
         THEN /\ conns' = [conns EXCEPT
                   ![srv.cur] = Dropped([conns[srv.cur] EXCEPT !.fail = "receive"])]
              /\ srv' = [IdleServer EXCEPT !.pc = "accept"]
              /\ slog' = Append(slog, "ReceiveError")
         ELSE /\ conns' = [conns EXCEPT
                             ![srv.cur].c2s = turn.stream,
                             ![srv.cur].stage = IF turn.done THEN "received" ELSE @]
              /\ srv' = [srv EXCEPT
                           !.return_bytes = turn.return_bytes,
                           !.pc = IF turn.done THEN "decode" ELSE @]
              /\ slog' = slog
    /\ UNCHANGED <<dispatchVars, frame, lock, canned, menu, listener, cl, nconn, fault>>

\* handle_connection: one read of the receive of receive_query returning Ok
ServerRead ==
    /\ srv.pc = "receive"
    /\ Readable(conns[srv.cur].c2s, conns[srv.cur].copen)
    /\ LET turn == ReceiveTurn(srv.return_bytes, conns[srv.cur].c2s) IN
         /\ conns' = [conns EXCEPT
                        ![srv.cur].c2s = turn.stream,
                        ![srv.cur].stage = IF turn.done THEN "received" ELSE @]
         /\ srv' = [srv EXCEPT
                      !.return_bytes = turn.return_bytes,
                      !.pc = IF turn.done THEN "decode" ELSE @]
    /\ UNCHANGED <<dispatchVars, frame, lock, canned, menu, listener, slog, cl, nconn, fault>>

\* a handle_connection that unwraps the result of receive_query
ServerReadFailUnwrapped ==
    /\ srv.pc = "receive"
    /\ fault = ""
    /\ fault' = "server read"
    /\ conns' = Crashed([conns EXCEPT ![srv.cur].fail = "receive"])
    /\ srv' = [srv EXCEPT !.pc = "panicked"]
    /\ listener' = "closed"
    /\ slog' = slog
    /\ UNCHANGED <<dispatchVars, frame, lock, canned, menu, cl, nconn>>

\* handle_connection: a read of the receive returning Err.  The ReceiveError
\* is returned through receive_query and handle_connection to serve, which
\* prints it and loops.
ServerReadFail ==
    /\ srv.pc = "receive"
    /\ fault = ""
    /\ fault' = "server read"
    /\ conns' = [conns EXCEPT
                   ![srv.cur] = Dropped([conns[srv.cur] EXCEPT !.fail = "receive"])]
    /\ srv' = [IdleServer EXCEPT !.pc = "accept"]
    /\ slog' = Append(slog, "ReceiveError")
    /\ UNCHANGED <<dispatchVars, frame, lock, canned, menu, listener, cl, nconn>>

\* a receive_query after which handle_connection answers with the query bytes
\* and makes no dispatch
ServerDecodeAnswer ==
    /\ srv.pc = "decode"
    /\ LET got == DecodeQuery(srv.return_bytes) IN
       IF got.kind = "ok"
         THEN /\ srv' = [srv EXCEPT !.pc = "respond", !.received_query = got,
                                    !.result_bytes = got.query_bytes]
              /\ conns' = [conns EXCEPT ![srv.cur].stage = "decoded"]
              /\ listener' = listener
         ELSE /\ srv' = [srv EXCEPT !.pc = "panicked"]
              /\ conns' = Crashed([conns EXCEPT ![srv.cur].fail = "decode"])
              /\ listener' = "closed"
    /\ UNCHANGED <<dispatchVars, frame, lock, canned, menu, slog, cl, nconn, fault>>

\* receive_query: the two deserialize calls on the bytes received; either
\* unwraps its Err, and the panic ends the serve task
ServerDecode ==
    /\ srv.pc = "decode"
    /\ LET got == DecodeQuery(srv.return_bytes) IN
       IF got.kind = "ok"
         THEN /\ srv' = [srv EXCEPT !.pc = "dispatch", !.received_query = got]
              /\ conns' = [conns EXCEPT ![srv.cur].stage = "decoded"]
              /\ listener' = listener
         ELSE /\ srv' = [srv EXCEPT !.pc = "panicked"]
              /\ conns' = Crashed([conns EXCEPT ![srv.cur].fail = "decode"])
              /\ listener' = "closed"
    /\ UNCHANGED <<dispatchVars, frame, lock, canned, menu, slog, cl, nconn, fault>>

\* a dispatch that takes the Mutex of the state whoever holds it
ServerLockUnguarded ==
    /\ srv.pc = "dispatch"
    /\ lock' = lock \cup {"serve"}
    /\ srv' = [srv EXCEPT !.pc = "locked"]
    /\ UNCHANGED <<dispatchVars, frame, canned, menu, listener, conns, slog, cl, nconn,
                   fault>>

\* the dispatch step of handle_connection takes the exclusive lock of the
\* state, and waits while another holder has it
ServerLock ==
    /\ srv.pc = "dispatch"
    /\ lock = {}
    /\ lock' = {"serve"}
    /\ srv' = [srv EXCEPT !.pc = "locked"]
    /\ UNCHANGED <<dispatchVars, frame, canned, menu, listener, conns, slog, cl, nconn,
                   fault>>

\* a dispatch whose handler works on a copy of the state, which is dropped
ServerDispatchOnCopy ==
    /\ srv.pc = "locked"
    /\ lock' = lock \ {"serve"}
    /\ LET out == ServerCall(rpcs, srv.received_query.query_bytes,
                             srv.received_query.name, state)
           conn == [conns[srv.cur] EXCEPT !.seen = state.i, !.ran = out.invoked]
       IN /\ state' = state
          /\ IF out.kind = "ok"
               THEN /\ srv' = [srv EXCEPT !.pc = "respond",
                                          !.result_bytes = out.bytes]
                    /\ conns' = [conns EXCEPT
                                   ![srv.cur] = [conn EXCEPT !.stage = "dispatched"]]
                    /\ listener' = listener
               ELSE /\ srv' = [srv EXCEPT !.pc = "panicked"]
                    /\ conns' = Crashed([conns EXCEPT
                                   ![srv.cur] = [conn EXCEPT !.fail = "dispatch"]])
                    /\ listener' = "closed"
    /\ UNCHANGED <<rpcs, regs, ncall, last, frame, canned, menu, slog, cl, nconn, fault>>

\* a dispatch that takes out of the registry the operation whose call
\* returned Err
ServerDispatchEvict ==
    /\ srv.pc = "locked"
    /\ lock' = lock \ {"serve"}
    /\ LET out == ServerCall(rpcs, srv.received_query.query_bytes,
                             srv.received_query.name, state)
           conn == [conns[srv.cur] EXCEPT !.seen = state.i, !.ran = out.invoked]
       IN /\ state' = out.state
          /\ rpcs' = IF out.kind = "err"
                       THEN {e \in rpcs : e.name # srv.received_query.name}
                       ELSE rpcs
          /\ IF out.kind = "ok"
               THEN /\ srv' = [srv EXCEPT !.pc = "respond",
                                          !.result_bytes = out.bytes]
                    /\ conns' = [conns EXCEPT
                                   ![srv.cur] = [conn EXCEPT !.stage = "dispatched"]]
                    /\ listener' = listener
               ELSE /\ srv' = [srv EXCEPT !.pc = "panicked"]
                    /\ conns' = Crashed([conns EXCEPT
                                   ![srv.cur] = [conn EXCEPT !.fail = "dispatch"]])
                    /\ listener' = "closed"
    /\ UNCHANGED <<regs, ncall, last, frame, canned, menu, slog, cl, nconn, fault>>

\* handle_connection: self.call(&query_bytes, &name).unwrap(), with the lock
\* held for the call and no longer; an Err of call and a panic inside call
\* both end the serve task
ServerDispatch ==
    /\ srv.pc = "locked"
    /\ lock' = lock \ {"serve"}
    /\ LET out == ServerCall(rpcs, srv.received_query.query_bytes,
                             srv.received_query.name, state)
           conn == [conns[srv.cur] EXCEPT !.seen = state.i, !.ran = out.invoked]
       IN /\ state' = out.state
          /\ IF out.kind = "ok"
               THEN /\ srv' = [srv EXCEPT !.pc = "respond",
                                          !.result_bytes = out.bytes]
                    /\ conns' = [conns EXCEPT
                                   ![srv.cur] = [conn EXCEPT !.stage = "dispatched"]]
                    /\ listener' = listener
               ELSE /\ srv' = [srv EXCEPT !.pc = "panicked"]
                    /\ conns' = Crashed([conns EXCEPT
                                   ![srv.cur] = [conn EXCEPT !.fail = "dispatch"]])
                    /\ listener' = "closed"
    /\ UNCHANGED <<rpcs, regs, ncall, last, frame, canned, menu, slog, cl, nconn, fault>>

\* a serve that returns when it has responded on a connection
ServerRespondOnce(n) ==
    /\ srv.pc = "respond"
    /\ n \in Pieces(srv.result_bytes)
    /\ conns' = [conns EXCEPT
                   ![srv.cur] = Dropped([conns[srv.cur] EXCEPT
                       !.s2c = Written(conns[srv.cur].s2c, srv.result_bytes, n),
                       !.stage = "responded"])]
    /\ srv' = [IdleServer EXCEPT !.pc = "returned"]
    /\ UNCHANGED <<dispatchVars, frame, lock, canned, menu, listener, slog, cl, nconn, fault>>

\* a respond that frames the result bytes in a wire package under the name
\* of the query
ServerRespondPackaged(n) ==
    /\ srv.pc = "respond"
    /\ n \in Pieces(srv.result_bytes)
    /\ conns' = [conns EXCEPT
                   ![srv.cur] = Dropped([conns[srv.cur] EXCEPT
                       !.s2c = Written(conns[srv.cur].s2c,
                                       PackageBytes(srv.result_bytes,
                                                    srv.received_query.name), n),
                       !.stage = "responded"])]
    /\ srv' = [IdleServer EXCEPT !.pc = "accept"]
    /\ UNCHANGED <<dispatchVars, frame, lock, canned, menu, listener, slog, cl, nconn, fault>>

\* handle_connection: transport.respond(&result_bytes) returning Ok, and the
\* end of handle_connection
ServerRespond(n) ==
    /\ srv.pc = "respond"
    /\ n \in Pieces(srv.result_bytes)
    /\ conns' = [conns EXCEPT
                   ![srv.cur] = Dropped([conns[srv.cur] EXCEPT
                       !.s2c = Written(conns[srv.cur].s2c, srv.result_bytes, n),
                       !.stage = "responded"])]
    /\ srv' = [IdleServer EXCEPT !.pc = "accept"]
    /\ UNCHANGED <<dispatchVars, frame, lock, canned, menu, listener, slog, cl, nconn, fault>>

\* handle_connection: respond returning Err(SendError), which serve prints
ServerRespondFail ==
    /\ srv.pc = "respond"
    /\ fault = ""
    /\ fault' = "server write"
    /\ conns' = [conns EXCEPT
                   ![srv.cur] = Dropped([conns[srv.cur] EXCEPT !.fail = "send"])]
    /\ srv' = [IdleServer EXCEPT !.pc = "accept"]
    /\ slog' = Append(slog, "SendError")
    /\ UNCHANGED <<dispatchVars, frame, lock, canned, menu, listener, cl, nconn>>

\* the network delivers the rest of a write
NetDeliver(k, dir) ==
    /\ IF dir = "c2s" THEN conns[k].sopen ELSE conns[k].copen
    /\ LET stream == IF dir = "c2s" THEN conns[k].c2s ELSE conns[k].s2c IN
         /\ stream.wire # <<>>
         /\ conns' = IF dir = "c2s"
                       THEN [conns EXCEPT ![k].c2s = Delivered(stream)]
                       ELSE [conns EXCEPT ![k].s2c = Delivered(stream)]
    /\ UNCHANGED <<dispatchVars, frame, lock, canned, menu, listener, srv, slog, cl, nconn,
                   fault>>

\* the result of call_client when connect returns Err
ConnectFailed == [kind |-> "err", v |-> Unit, err |-> TransportErr("ConnectError")]

\* a call_client that goes on to the send when connect returns Err, and
\* returns the error of that send
ClientConnectThenSend(c, req) ==
    /\ cl[c].pc = "idle"
    /\ c \in OneCall => cl[c].req = NoRequest
    /\ nconn < MaxConns
    /\ nconn' = nconn + 1
    /\ IF listener = "bound"
         THEN /\ conns' = Append(conns, NewConn(c, req))
              /\ cl' = [cl EXCEPT ![c] = [IdleClient EXCEPT
                          !.pc = "send", !.req = req, !.conn = Len(conns) + 1]]
         ELSE /\ conns' = conns
              /\ cl' = [cl EXCEPT ![c] = [IdleClient EXCEPT
                          !.req = req, !.sends = 1,
                          !.result = [kind |-> "err", v |-> Unit,
                                      err |-> TransportErr("SendError")]]]
    /\ UNCHANGED <<dispatchVars, frame, lock, canned, menu, listener, srv, slog, fault>>

\* call_client: TcpStream::connect(addr); Err is returned as
\* TransportError(ConnectError), Ok gives the transport of the call.  A task
\* at "idle" holds the result of its last call, and may call again.
ClientConnect(c, req) ==
    /\ cl[c].pc = "idle"
    /\ c \in OneCall => cl[c].req = NoRequest
    /\ nconn < MaxConns
    /\ nconn' = nconn + 1
    /\ IF listener = "bound"
         THEN /\ conns' = Append(conns, NewConn(c, req))
              /\ cl' = [cl EXCEPT ![c] = [IdleClient EXCEPT
                          !.pc = "send", !.req = req, !.conn = Len(conns) + 1]]
         ELSE /\ conns' = conns
              /\ cl' = [cl EXCEPT ![c] = [IdleClient EXCEPT
                          !.req = req, !.result = ConnectFailed]]
    /\ UNCHANGED <<dispatchVars, frame, lock, canned, menu, listener, srv, slog, fault>>

\* the frame a request puts on the wire: RpcClient::call and send_query for a
\* call, the bytes themselves for a raw peer
RequestBytes(req) ==
    IF req.kind = "call" THEN PackageBytes(Serialize(req.q), req.name)
    ELSE req.raw

\* a call has returned or unwound: its transport is dropped
Finished(conn, result) ==
    Settled([conn EXCEPT !.copen = FALSE, !.owner = 0, !.got = result])

\* a call that writes its frame a second time on the connection
ClientSendTwice(c, n) ==
    /\ cl[c].pc = "send"
    /\ n \in Pieces(RequestBytes(cl[c].req))
    /\ conns' = [conns EXCEPT ![cl[c].conn].c2s =
                   Written(Written(conns[cl[c].conn].c2s, RequestBytes(cl[c].req),
                                   Len(RequestBytes(cl[c].req))),
                           RequestBytes(cl[c].req), n)]
    /\ cl' = [cl EXCEPT ![c].pc = "receive", ![c].sends = @ + 1]
    /\ UNCHANGED <<dispatchVars, frame, lock, canned, menu, listener, srv, slog, nconn, fault>>

\* RpcClient::call up to the send of send_and_wait_for_response, the send
\* returning Ok
ClientSend(c, n) ==
    /\ cl[c].pc = "send"
    /\ n \in Pieces(RequestBytes(cl[c].req))
    /\ conns' = [conns EXCEPT ![cl[c].conn].c2s =
                   Written(conns[cl[c].conn].c2s, RequestBytes(cl[c].req), n)]
    /\ cl' = [cl EXCEPT ![c].pc = "receive", ![c].sends = @ + 1]
    /\ UNCHANGED <<dispatchVars, frame, lock, canned, menu, listener, srv, slog, nconn, fault>>

\* a send_and_wait_for_response that goes on to the receive when the send
\* returned Err
ClientSendFailIgnored(c) ==
    /\ cl[c].pc = "send"
    /\ fault = ""
    /\ fault' = "client write"
    /\ conns' = conns
    /\ cl' = [cl EXCEPT ![c].pc = "receive", ![c].sends = @ + 1]
    /\ UNCHANGED <<dispatchVars, frame, lock, canned, menu, listener, srv, slog, nconn>>

\* the send returning Err: send_and_wait_for_response returns it before any
\* receive, and call returns it as TransportError(SendError)
ClientSendFail(c) ==
    /\ cl[c].pc = "send"
    /\ fault = ""
    /\ fault' = "client write"
    /\ LET failed == [kind |-> "err", v |-> Unit, err |-> TransportErr("SendError")]
       IN /\ conns' = [conns EXCEPT
                         ![cl[c].conn] = Finished(conns[cl[c].conn], failed)]
          /\ cl' = [cl EXCEPT ![c].pc = "idle", ![c].sends = @ + 1,
                              ![c].result = failed]
    /\ UNCHANGED <<dispatchVars, frame, lock, canned, menu, listener, srv, slog, nconn>>

\* a call that gives its query back as the result
ReplyEcho(req, bytes) ==
    IF req.kind = "raw" THEN [kind |-> "raw", v |-> Unit, err |-> NoErr]
    ELSE [kind |-> "ok", v |-> req.q, err |-> NoErr]

\* RpcClient::call after the receive: Ok(transport.config.deserialize(..)),
\* whose unwrap panics on bytes that are no Response; a raw peer keeps the bytes
Reply(req, bytes) ==
    IF req.kind = "raw" THEN [kind |-> "raw", v |-> Unit, err |-> NoErr]
    ELSE LET r == Deserialize(bytes, req.rt) IN
         IF r.ok THEN [kind |-> "ok", v |-> r.v, err |-> NoErr]
         ELSE [kind |-> "panic", v |-> Unit, err |-> NoErr]

\* the receive() calls made once the read at hand returns
Receives(client) ==
    IF client.pc = "receive" THEN client.receives + 1 ELSE client.receives

\* one read of the receive of send_and_wait_for_response returning Ok, and,
\* when the receive returns, the rest of RpcClient::call
ClientRead(c) ==
    /\ cl[c].pc \in {"receive", "receiving"}
    /\ Readable(conns[cl[c].conn].s2c, conns[cl[c].conn].sopen)
    /\ LET k == cl[c].conn
           turn == ReceiveTurn(cl[c].return_bytes, conns[k].s2c)
           result == Reply(cl[c].req, turn.return_bytes)
       IN IF turn.done
            THEN /\ conns' = [conns EXCEPT ![k] =
                      Finished([conns[k] EXCEPT !.s2c = turn.stream], result)]
                 /\ cl' = [cl EXCEPT
                      ![c].pc = IF result.kind = "panic" THEN "panicked" ELSE "idle",
                      ![c].receives = Receives(cl[c]),
                      ![c].return_bytes = turn.return_bytes,
                      ![c].result = result]
            ELSE /\ conns' = [conns EXCEPT ![k].s2c = turn.stream]
                 /\ cl' = [cl EXCEPT
                      ![c].pc = "receiving",
                      ![c].receives = Receives(cl[c]),
                      ![c].return_bytes = turn.return_bytes]
    /\ UNCHANGED <<dispatchVars, frame, lock, canned, menu, listener, srv, slog, nconn, fault>>

\* a read of the receive returning Err: call returns it as
\* TransportError(ReceiveError)
ClientReadFail(c) ==
    /\ cl[c].pc \in {"receive", "receiving"}
    /\ fault = ""
    /\ fault' = "client read"
    /\ LET failed == [kind |-> "err", v |-> Unit,
                      err |-> TransportErr("ReceiveError")]
       IN /\ conns' = [conns EXCEPT
                         ![cl[c].conn] = Finished(conns[cl[c].conn], failed)]
          /\ cl' = [cl EXCEPT ![c].pc = "idle", ![c].receives = Receives(cl[c]),
                              ![c].result = failed]
    /\ UNCHANGED <<dispatchVars, frame, lock, canned, menu, listener, srv, slog, nconn>>

Respond == \E n \in Pieces(srv.result_bytes) : ServerRespond(n)
Deliver == \E k \in DOMAIN conns, dir \in {"c2s", "s2c"} : NetDeliver(k, dir)
Connect == \E c \in Clients : \E req \in menu[c] : ClientConnect(c, req)
Send ==
    \E c \in Clients :
        \/ \E n \in Pieces(RequestBytes(cl[c].req)) : ClientSend(c, n)
        \/ ClientSendFail(c)
Read == \E c \in Clients : ClientRead(c) \/ ClientReadFail(c)

Next ==
    \/ ServerBind \/ ServerBindFail \/ ServerAccept \/ ServerAcceptFail
    \/ ServerRead \/ ServerReadFail \/ ServerDecode \/ ServerLock
    \/ ServerDispatch
    \/ Respond \/ ServerRespondFail
    \/ Deliver \/ Connect \/ Send \/ Read

Spec == Init /\ [][Next]_vars

\* C4: a connection whose bytes do not decode as a wire package, or whose
\* name bytes do not decode to a name, is dropped alone: the serve task does
\* not end on it, and goes on to serve later connections.
C4_UndecodableFrameIsolated ==
    (srv.pc = "panicked" /\ srv.cur # 0) => conns[srv.cur].fail # "decode"

\* C5: a failed dispatch (unregistered name, payload that does not decode,
\* handler returning Err) is logged and its connection dropped; it never ends
\* the serve task.
C5_DispatchFailureIsolated ==
    (srv.pc = "panicked" /\ srv.cur # 0) => conns[srv.cur].fail # "dispatch"

\* the dispatch of a connection ran a handler that adds 1 to the count
Incremented(conn) ==
    conn.ran # <<>> /\ conn.ran[1].impl \in {"IncrI", "Faulty"}

\* C6: the count is the initial count plus one for each increment run so far
\* (the other handlers leave it as it is); the dispatch of a connection sees
\* the count left by the dispatches of all connections before it, in arrival
\* order; and the reply a GetI caller decodes is the count its dispatch saw.
C6_StateVisible ==
    /\ state.i = InitCount
                   + Cardinality({j \in DOMAIN conns : Incremented(conns[j])})
    /\ \A k \in DOMAIN conns :
         /\ conns[k].ran # <<>> =>
              /\ Len(conns[k].ran) = 1
              /\ conns[k].ran[1].i = conns[k].seen
              /\ conns[k].seen = InitCount
                   + Cardinality({j \in 1..(k - 1) : Incremented(conns[j])})
         /\ (conns[k].req = Call("GetI", Unit, "usize")
               /\ conns[k].got.kind = "ok") =>
              conns[k].got.v = Usize(conns[k].seen)

\* client 1 alone has called GetI, IncrI, GetI and got 3, (), 4
C6_Witness ==
    /\ Len(conns) = 3
    /\ cl[2].req = NoRequest
    /\ conns[1].req = Call("GetI", Unit, "usize")
    /\ conns[1].got = [kind |-> "ok", v |-> Usize(InitCount), err |-> NoErr]
    /\ conns[2].req = Call("IncrI", Unit, "unit")
    /\ conns[2].got = [kind |-> "ok", v |-> Unit, err |-> NoErr]
    /\ conns[3].req = Call("GetI", Unit, "usize")
    /\ conns[3].got = [kind |-> "ok", v |-> Usize(InitCount + 1), err |-> NoErr]
    /\ cl[1].result = conns[3].got

\* C9: RpcClient::call returns every failure as an error value: the caller is
\* never unwound, and a reply that does not decode as the Response type gives
\* ParseError.
C9_ClientFailuresReturned ==
    \A c \in Clients :
        /\ cl[c].pc # "panicked"
        /\ (/\ cl[c].pc = "idle"
            /\ cl[c].req.kind = "call"
            /\ cl[c].result.kind # ""
            /\ cl[c].result.err.variant # "TransportError"
            /\ ~Deserialize(cl[c].return_bytes, cl[c].req.rt).ok) =>
               /\ cl[c].result.kind = "err"
               /\ cl[c].result.err.variant = "ParseError"

\* C10: a call_client whose connect fails returns
\* TransportError(ConnectError) with no send and no receive and no
\* connection; one whose connect succeeds holds one new connection, and makes
\* on it the one call: one send, and one receive unless the send failed.
C10_ConnectOrDelegate ==
    [][\A c \in Clients :
         /\ (cl[c].pc = "idle" /\ cl'[c] # cl[c]) =>
              IF listener # "bound"
                THEN /\ cl'[c].result = ConnectFailed
                     /\ cl'[c].pc = "idle"
                     /\ cl'[c].conn = 0
                     /\ cl'[c].sends = 0 /\ cl'[c].receives = 0
                     /\ conns' = conns
                ELSE /\ Len(conns') = Len(conns) + 1
                     /\ cl'[c].conn = Len(conns')
                     /\ conns'[Len(conns')].owner = c
                     /\ \A d \in Clients \ {c} : cl'[d].conn # cl'[c].conn
                     /\ cl'[c].pc = "send"
                     /\ cl'[c].sends = 0 /\ cl'[c].receives = 0
         /\ (cl[c].pc # "idle" /\ cl'[c] # cl[c]) =>
              /\ cl'[c].conn = cl[c].conn
              /\ cl'[c].req = cl[c].req
              /\ cl'[c].sends <= 1 /\ cl'[c].receives <= 1
              /\ cl'[c].pc \in {"idle", "panicked"} =>
                   /\ cl'[c].sends = 1
                   /\ cl'[c].result.err # TransportErr("SendError") =>
                        cl'[c].receives = 1
      ]_vars

\* client 1 was refused, client 2 has made its call on a connection
C10_Witness ==
    /\ cl[1].result = ConnectFailed
    /\ cl[1].sends = 0 /\ cl[1].receives = 0
    /\ cl[2].pc = "idle"
    /\ cl[2].conn = 1
    /\ cl[2].result = [kind |-> "ok", v |-> Unit, err |-> NoErr]
    /\ cl[2].sends = 1 /\ cl[2].receives = 1

\* the connections handle_connection has been entered for and not left
InHand == {k \in DOMAIN conns : conns[k].stage # "pending" /\ conns[k].sopen}

\* C11: serve handles one connection at a time: the only connection in hand
\* is the one handle_connection runs on, and when a connection has been
\* accepted every connection before it was accepted and left (responded to,
\* or failed), so the steps of two connections never interleave.
C11_OneConnectionAtATime ==
    /\ InHand \subseteq {srv.cur}
    /\ srv.pc \in {"receive", "decode", "dispatch", "locked", "respond"} =>
         InHand = {srv.cur}
    /\ \A k \in DOMAIN conns :
         conns[k].stage # "pending" =>
           \A j \in 1..(k - 1) : conns[j].stage # "pending" /\ ~conns[j].sopen

\* the second connection has sent its request and waits in the backlog while
\* the first is between dispatch and respond
C11_Witness ==
    /\ Len(conns) >= 2
    /\ conns[1].stage = "dispatched"
    /\ conns[2].stage = "pending"
    /\ conns[2].c2s.buf # <<>>

\* C13: a failed accept, and a failed read or write on the connection in
\* hand, leave the serve task at its accept with the listener bound and the
\* state as it was; the connection in hand is dropped, and after a failed read
\* no handler has run on it.
C13_ServerIoFailureNotFatal ==
    [][(fault = "" /\ fault' \in {"accept", "server read", "server write"}) =>
         /\ srv'.pc = "accept"
         /\ listener' = "bound"
         /\ state' = state
         /\ Len(slog') = Len(slog) + 1
         /\ fault' # "accept" =>
              /\ ~conns'[srv.cur].sopen
              /\ \A k \in DOMAIN conns \ {srv.cur} : conns'[k] = conns[k]
         /\ fault' = "server read" =>
              /\ conns'[srv.cur].ran = <<>>
              /\ conns'[srv.cur].stage \in {"accepted", "received"}
      ]_vars

\* the read on the first connection failed; the second was served
C13_Witness ==
    /\ fault = "server read"
    /\ Len(conns) >= 2
    /\ conns[1].fail = "receive"
    /\ conns[1].ran = <<>>
    /\ conns[2].stage = "responded"
    /\ conns[2].got.kind = "ok"

(***************************************************************************)
(* SpecLock: serve and the clients of regular_server, and another owner of *)
(* the Arc<Mutex<State>> that locks the state and lets it go.              *)
(***************************************************************************)
LockMenu ==
    [c \in Clients |-> IF c = 1 THEN TestCalls ELSE {Call("IncrI", Unit, "unit")}]

InitLock ==
    /\ rpcs = ServeRegistry
    /\ state = [i |-> InitCount]
    /\ regs = <<>>
    /\ ncall = 0
    /\ last = [op |-> "none", name |-> "", impl |-> "", bytes |-> <<>>,
               pre |-> [i |-> InitCount], out |-> NoOutcome]
    /\ frame = NoFrame
    /\ InitServe(LockMenu)

\* the other owner takes the lock of the state, waiting while it is held
HolderLock ==
    /\ lock = {}
    /\ lock' = {"app"}
    /\ UNCHANGED <<dispatchVars, frame, canned, menu, listener, conns, srv, slog, cl,
                   nconn, fault>>

\* the other owner drops its guard
HolderUnlock ==
    /\ "app" \in lock
    /\ lock' = lock \ {"app"}
    /\ UNCHANGED <<dispatchVars, frame, canned, menu, listener, conns, srv, slog, cl,
                   nconn, fault>>

NextLock == Next \/ HolderLock \/ HolderUnlock

SpecLock == InitLock /\ [][NextLock]_vars

BigRegistry == {[name |-> "MassiveRpc", impl |-> "Massive"]}

\* call_client(addr, 2000, massive_rpc_client)
BigCall == Call("MassiveRpc", Usize(BigLen), "vec")

BigMenu == [c \in Clients |-> IF c = 1 THEN {BigCall} ELSE {}]

InitBig ==
    /\ rpcs = BigRegistry
    /\ state = [i |-> InitCount]
    /\ regs = <<>>
    /\ ncall = 0
    /\ last = [op |-> "none", name |-> "", impl |-> "", bytes |-> <<>>,
               pre |-> [i |-> InitCount], out |-> NoOutcome]
    /\ frame = NoFrame
    /\ InitServe(BigMenu)

SpecBig == InitBig /\ [][Next]_vars

\* C7: when no I/O call fails, the client's call of MassiveRpc on a connection
\* the server responded on returns the whole reply: a Vec of BigLen elements.
C7_BigReplyWhole ==
    \A c \in Clients :
        (/\ fault = ""
         /\ cl[c].req = BigCall
         /\ cl[c].pc \in {"idle", "panicked"}
         /\ cl[c].result.kind \in {"ok", "panic"}
         /\ conns[cl[c].conn].stage = "responded") =>
            /\ cl[c].result.kind = "ok"
            /\ Len(cl[c].result.v.s) = BigLen

\* C14: every read of a receive appends what it read, in order, to the bytes
\* read before; the receive returns at the first read of fewer bytes than the
\* buffer holds (none included) and reads again after a read that fills the
\* buffer; a read that fails gives ReceiveError and none of the bytes.
C14_ReceiveAccumulates ==
    [][/\ \A c \in Clients :
            (cl[c].pc \in {"receive", "receiving"} /\ cl'[c] # cl[c]) =>
              IF fault' # fault
                THEN /\ cl'[c].pc = "idle"
                     /\ cl'[c].result = [kind |-> "err", v |-> Unit,
                                         err |-> TransportErr("ReceiveError")]
                ELSE LET buf == conns[cl[c].conn].s2c.buf
                         n == Min(Len(buf), BufLen)
                     IN /\ cl[c].pc = "receive" => cl[c].return_bytes = <<>>
                        /\ cl'[c].return_bytes
                             = cl[c].return_bytes \o SubSeq(buf, 1, n)
                        /\ n < BufLen <=> cl'[c].pc \in {"idle", "panicked"}
                        /\ n = BufLen <=> cl'[c].pc = "receiving"
       /\ (srv.pc = "receive" /\ srv' # srv) =>
            IF fault' # fault
              THEN /\ srv'.pc = "accept"
                   /\ srv'.return_bytes = <<>>
                   /\ slog' = Append(slog, "ReceiveError")
              ELSE LET buf == conns[srv.cur].c2s.buf
                       n == Min(Len(buf), BufLen)
                   IN /\ srv'.return_bytes = srv.return_bytes \o SubSeq(buf, 1, n)
                      /\ n < BufLen <=> srv'.pc = "decode"
                      /\ n = BufLen <=> srv'.pc = "receive"
      ]_vars

\* the receive of the client has read a full buffer, read again, and returned
\* the whole reply of MassiveRpc
C14_Witness ==
    /\ cl[1].pc = "idle"
    /\ cl[1].req = BigCall
    /\ cl[1].result.kind = "ok"
    /\ Len(cl[1].return_bytes) > BufLen
    /\ cl[1].return_bytes = Serialize(VecU32([k \in 1..BigLen |-> 1]))

\* C15: send_and_wait_for_response writes all the bytes and then makes one
\* receive, whose result it returns; a send that fails gives SendError, and no
\* receive is made.
C15_SendThenOneReceive ==
    [][\A c \in Clients :
         /\ (cl[c].pc = "send" /\ cl'[c] # cl[c]) =>
              LET k == cl[c].conn IN
              IF fault' # fault
                THEN /\ cl'[c].pc = "idle"
                     /\ cl'[c].result = [kind |-> "err", v |-> Unit,
                                         err |-> TransportErr("SendError")]
                     /\ cl'[c].receives = 0
                ELSE /\ cl'[c].pc = "receive"
                     /\ cl'[c].sends = 1 /\ cl'[c].receives = 0
                     /\ conns'[k].c2s.buf \o conns'[k].c2s.wire
                          = conns[k].c2s.buf \o conns[k].c2s.wire
                              \o RequestBytes(cl[c].req)
         /\ (cl[c].pc \in {"receive", "receiving"} /\ cl'[c] # cl[c]) =>
              /\ cl[c].sends = 1
              /\ cl'[c].sends = 1 /\ cl'[c].receives = 1
              /\ conns'[cl[c].conn].c2s = conns[cl[c].conn].c2s
                   \/ ~conns'[cl[c].conn].copen
              /\ (cl'[c].pc \in {"idle", "panicked"} /\ fault' = fault) =>
                   cl'[c].result = Reply(cl[c].req, cl'[c].return_bytes)
      ]_vars

\* the send of client 1 failed; client 2 has sent, received once and returned
C15_Witness ==
    /\ cl[1].pc = "idle"
    /\ cl[1].result = [kind |-> "err", v |-> Unit, err |-> TransportErr("SendError")]
    /\ cl[1].sends = 1 /\ cl[1].receives = 0
    /\ cl[2].pc = "idle"
    /\ cl[2].sends = 1 /\ cl[2].receives = 1
    /\ cl[2].result.kind = "ok"

\* the steps of handle_connection on a connection, in their order
StageRank ==
    [st \in {"pending", "accepted", "received", "decoded", "dispatched",
             "responded"} |->
       CASE st = "pending" -> 0 [] st = "accepted" -> 1 [] st = "received" -> 2
         [] st = "decoded" -> 3 [] st = "dispatched" -> 4 [] st = "responded" -> 5]

\* C16: a connection carries one request at most: what is on its way to the
\* server is never more than the frame of the one call that opened it (or
\* what is left of that frame), bytes are put on it only by the send of that
\* call, the server goes through receive, dispatch and respond on it once and
\* never back, and a call returns only with one receive made or with an error.
C16_OneRequestPerConnection ==
    [][/\ \A k \in DOMAIN conns' :
            (k \notin DOMAIN conns \/ conns'[k] # conns[k]) =>
              LET inflight == conns'[k].c2s.buf \o conns'[k].c2s.wire
                  request == RequestBytes(conns'[k].req)
              IN /\ (k \notin DOMAIN conns \/ conns'[k].c2s # conns[k].c2s) =>
                      /\ Len(inflight) <= Len(request)
                      /\ inflight = SubSeq(request,
                                           Len(request) - Len(inflight) + 1,
                                           Len(request))
                 /\ k \in DOMAIN conns =>
                      /\ conns'[k].req = conns[k].req
                      /\ conns'[k].owner \in {conns[k].owner, 0}
                      /\ StageRank[conns'[k].stage] \in
                           {StageRank[conns[k].stage],
                            StageRank[conns[k].stage] + 1}
                      /\ Len(inflight)
                           > Len(conns[k].c2s.buf) + Len(conns[k].c2s.wire) =>
                           /\ conns[k].owner # 0
                           /\ cl[conns[k].owner].pc = "send"
                           /\ cl[conns[k].owner].conn = k
                           /\ cl'[conns[k].owner].sends = 1
       /\ \A c \in Clients :
            (cl[c].pc # "idle" /\ cl'[c].pc = "idle") =>
              cl'[c].receives = 1 \/ cl'[c].result.kind = "err"
       /\ \A c \in Clients :
            (cl[c].conn # 0 /\ cl'[c].conn # cl[c].conn /\ cl'[c].conn # 0) =>
              cl'[c].conn = Len(conns) + 1
      ]_vars

\* client 1 has had its first call answered on connection 1 and has sent the
\* frame of its second call on connection 2
C16_Witness ==
    /\ Len(conns) = 2
    /\ cl[2].req = NoRequest
    /\ conns[1].stage = "responded"
    /\ conns[1].got.kind = "ok"
    /\ cl[1].conn = 2
    /\ cl[1].pc = "receive"
    /\ conns[2].c2s.buf = RequestBytes(cl[1].req)

(***************************************************************************)
(* SpecCanned: RpcClient::call over a CannedTestingTransport, as in the    *)
(* test client_test, for several queries and several canned replies.       *)
(***************************************************************************)
\* the values of always_respond_with
CannedReplies == {FooBar, <<>>, Quoted}

\* the CannedTestingTransport values: a reply and a receive count
CannedTransports ==
    {[always_respond_with |-> r, receive_times |-> n] :
        r \in CannedReplies, n \in 0..MaxReceive}

\* the queries of the calls: "Foo" of client_test among them
CannedQueries == {Str(<<70, 111, 111>>), Str(Bar), Str(FooBar), Str(Quoted)}

\* CannedTestingTransport::send_and_wait_for_response: the bytes _b are
\* ignored
CannedSendAndWait(always_respond_with, b) == Serialize(Str(always_respond_with))

InitCanned ==
    /\ rpcs = {}
    /\ state = [i |-> InitCount]
    /\ regs = <<>>
    /\ ncall = 0
    /\ last = [op |-> "none", name |-> "", impl |-> "", bytes |-> <<>>,
               pre |-> [i |-> InitCount], out |-> NoOutcome]
    /\ frame = NoFrame
    /\ menu = [c \in Clients |-> {Call("HelloWorld", q, "str") : q \in CannedQueries}]
    /\ listener = "unbound"
    /\ conns = <<>>
    /\ srv = IdleServer
    /\ slog = <<>>
    /\ cl = [c \in Clients |-> IdleClient]
    /\ nconn = 0
    /\ fault = ""
    /\ lock = {}
    /\ canned \in [Clients -> CannedTransports]

\* rpc_client.call(q, &mut transport) on the canned transport: serialize the
\* query, send_query, deserialize what came back
CannedCall(c, req) ==
    /\ cl[c].pc = "idle"
    /\ LET query_bytes == Serialize(req.q)
           package_bytes == PackageBytes(query_bytes, req.name)
           result_bytes == CannedSendAndWait(canned[c].always_respond_with, package_bytes)
           result == Reply(req, result_bytes)
       IN cl' = [cl EXCEPT ![c] = [IdleClient EXCEPT
                   !.pc = IF result.kind = "panic" THEN "panicked" ELSE "idle",
                   !.req = req, !.return_bytes = result_bytes,
                   !.result = result]]
    /\ UNCHANGED <<dispatchVars, frame, menu, listener, conns, srv, slog, nconn,
                   fault, lock, canned>>

NextCanned == \E c \in Clients : \E req \in menu[c] : CannedCall(c, req)

SpecCanned == InitCanned /\ [][NextCanned]_vars

\* C17: the result of a call is the decoding, as the Response, of the bytes
\* the channel returned, whatever the query: over the canned channel it is
\* the canned reply, "Foo-Bar" when that is the reply.
C17_ResultIsDecodedReply ==
    \A c \in Clients :
        cl[c].req # NoRequest =>
          /\ cl[c].pc = "idle"
          /\ cl[c].return_bytes
               = CannedSendAndWait(canned[c].always_respond_with, <<>>)
          /\ cl[c].result.kind = "ok"
          /\ cl[c].result.v = Str(canned[c].always_respond_with)
          /\ Serialize(cl[c].result.v) = cl[c].return_bytes
          /\ canned[c].always_respond_with = FooBar => cl[c].result.v.s = FooBar

\* client_test: the query "Foo" over the channel that replies "Foo-Bar"; and
\* the other client called with the query "Foo-Bar" over a channel that
\* replies with the empty string
C17_Witness ==
    /\ canned[1].always_respond_with = FooBar
    /\ cl[1].req = Call("HelloWorld", Str(<<70, 111, 111>>), "str")
    /\ cl[1].result = [kind |-> "ok", v |-> Str(FooBar), err |-> NoErr]
    /\ canned[2].always_respond_with = <<>>
    /\ cl[2].req = Call("HelloWorld", Str(FooBar), "str")
    /\ cl[2].result = [kind |-> "ok", v |-> Str(<<>>), err |-> NoErr]

\* "foo" between double quotes
FooInQuotes == <<34, 102, 111, 111, 34>>

\* C18, as the claim has it: HelloWorld called with "foo" while the count is 3
\* returns "Hello world: 3:foo".
C18_EchoPlainText ==
    \A k \in DOMAIN conns :
        (/\ conns[k].req = Call("HelloWorld", Str(Foo), "str")
         /\ conns[k].seen = 3
         /\ conns[k].got.kind = "ok") =>
            conns[k].got.v = Str(HelloPrefix \o <<51, 58>> \o Foo)

\* C18, amended: HelloWorld called with "foo" returns the prefix, the count at
\* its dispatch, a colon and the query text between double quotes:
\* "Hello world: 3:\"foo\"" while the count is 3.
C18_EchoQuotedText ==
    \A k \in DOMAIN conns :
        (/\ conns[k].req = Call("HelloWorld", Str(Foo), "str")
         /\ conns[k].got.kind = "ok") =>
            /\ conns[k].got.v
                 = Str(HelloPrefix \o Decimal(conns[k].seen) \o <<58>> \o FooInQuotes)
            /\ conns[k].seen = 3 =>
                 conns[k].got.v.s = HelloPrefix \o <<51, 58>> \o FooInQuotes

\* the first call of regular_server: HelloWorld with "foo" at count 3, answered
C18_Witness ==
    /\ Len(conns) >= 1
    /\ conns[1].req = Call("HelloWorld", Str(Foo), "str")
    /\ conns[1].seen = 3
    /\ conns[1].got.kind = "ok"
    /\ cl[1].result = conns[1].got

C20_HandlerFailurePassedOn ==
    \A k \in DOMAIN conns :
        conns[k].ran # <<>> =>
          LET ran == conns[k].ran[1]
              r == Implement(ran.impl, [i |-> ran.i], ran.q)
              out == ServerCall(rpcs, Serialize(ran.q), conns[k].req.name,
                                [i |-> ran.i])
          IN ~r.ok =>
               /\ out.kind = "err"
               /\ out.err = r.err
               /\ out.bytes = <<>>
               /\ conns[k].stage = "decoded"
               /\ conns[k].fail = "dispatch"
               /\ conns[k].s2c = EmptyStream
               /\ conns[k].got.kind # "ok"

\* the handler under PreciseRpc ran on the first connection and returned Err
\* after it changed the count; the caller's receive has returned
C20_Witness ==
    /\ Len(conns) >= 1
    /\ conns[1].ran # <<>>
    /\ conns[1].ran[1].impl = "Faulty"
    /\ conns[1].fail = "dispatch"
    /\ state.i = InitCount + 1
    /\ ~conns[1].copen
    /\ cl[1].receives = 1

\* C21: a connection goes through pending, accepted, received, decoded,
\* dispatched, responded one step at a time and never back; the dispatch is
\* made on a connection whose frame was received and decoded, and once only;
\* bytes are written to it only by the respond that follows its successful
\* dispatch, and once only; a connection the server has dropped stays as it is.
C21_StagesInOrder ==
    [][/\ \A k \in DOMAIN conns :
            conns'[k] # conns[k] =>
              /\ StageRank[conns'[k].stage] \in
                   {StageRank[conns[k].stage], StageRank[conns[k].stage] + 1}
              /\ conns'[k].stage # conns[k].stage => conns[k].sopen
              /\ ~conns[k].sopen =>
                   /\ ~conns'[k].sopen
                   /\ conns'[k].fail = conns[k].fail
                   /\ conns'[k].ran = conns[k].ran
                   /\ conns'[k].seen = conns[k].seen
              /\ conns'[k].stage = "dispatched" /\ conns[k].stage # "dispatched" =>
                   /\ srv.pc = "locked" /\ srv.cur = k
                   /\ srv'.result_bytes
                        = ServerCall(rpcs, srv.received_query.query_bytes,
                                     srv.received_query.name, state).bytes
              /\ conns'[k].stage = "responded" /\ conns[k].stage # "responded" =>
                   /\ srv.pc = "respond" /\ srv.cur = k
                   /\ conns[k].s2c = EmptyStream
                   /\ conns[k].copen =>
                        conns'[k].s2c.buf \o conns'[k].s2c.wire = srv.result_bytes
                   /\ ~conns'[k].sopen
              /\ conns'[k].s2c.buf \o conns'[k].s2c.wire # <<>>
                   => conns'[k].stage = "responded"
       /\ (srv.pc = "locked" /\ srv'.pc # "locked") =>
            /\ conns[srv.cur].stage = "decoded"
            /\ conns[srv.cur].fail = ""
            /\ conns[srv.cur].ran = <<>>
            /\ conns[srv.cur].sopen
            /\ srv.received_query = DecodeQuery(srv.return_bytes)
            /\ conns'[srv.cur].stage = "dispatched"
                 \/ (conns'[srv.cur].fail = "dispatch" /\ ~conns'[srv.cur].sopen)
      ]_vars

\* the first connection went through every stage and is closed at both ends;
\* the second has been dispatched and not yet responded to
C21_Witness ==
    /\ Len(conns) >= 2
    /\ conns[1].stage = "responded"
    /\ ~conns[1].sopen /\ ~conns[1].copen
    /\ conns[1].got.kind = "ok"
    /\ conns[2].stage = "dispatched"
    /\ srv.cur = 2

(***************************************************************************)
(* SpecFull: serve and a client whose request frame fills a whole number   *)
(* of read buffers; another client calls IncrI.                            *)
(***************************************************************************)
\* the bytes of a HelloWorld frame that are not characters of the query
FrameOverhead ==
    Len(PackageBytes(Serialize(Str([k \in 1..256 |-> 97])), "HelloWorld")) - 256

\* a call of HelloWorld whose frame is m read buffers long
FullCall(m) ==
    Call("HelloWorld", Str([k \in 1..(m * BufLen - FrameOverhead) |-> 97]), "str")

FullMenu ==
    [c \in Clients |-> IF c = 1 THEN {FullCall(m) : m \in 1..MaxFull}
                       ELSE {Call("IncrI", Unit, "unit")}]

InitFull ==
    /\ rpcs = ServeRegistry
    /\ state = [i |-> InitCount]
    /\ regs = <<>>
    /\ ncall = 0
    /\ last = [op |-> "none", name |-> "", impl |-> "", bytes |-> <<>>,
               pre |-> [i |-> InitCount], out |-> NoOutcome]
    /\ frame = NoFrame
    /\ InitServe(FullMenu)

SpecFull == InitFull /\ [][Next]_vars

\* the server has read, in reads that filled the buffer, the whole frame of
\* connection k, whose client waits for the reply with the connection open
FullyRead(k) ==
    /\ srv.cur = k
    /\ srv.pc = "receive"
    /\ conns[k].copen /\ conns[k].sopen
    /\ conns[k].c2s = EmptyStream
    /\ srv.return_bytes = RequestBytes(conns[k].req)
    /\ Len(srv.return_bytes) > 0
    /\ Len(srv.return_bytes) % BufLen = 0

\* C22: a read of the server's receive that fills the buffer does not end
\* the receive; once the whole of a frame that is a positive multiple of the
\* buffer long has been read that way, and while the client keeps its end
\* open, the receive stays in its read: no dispatch is made on the
\* connection, nothing is written to it, and the client stays in its receive
\* with no result.
C22_FullFrameHangs ==
    [][/\ (srv.pc = "receive" /\ srv' # srv /\ fault' = fault
             /\ Len(conns[srv.cur].c2s.buf) >= BufLen) =>
            /\ srv'.pc = "receive"
            /\ Len(srv'.return_bytes) = Len(srv.return_bytes) + BufLen
       /\ \A k \in DOMAIN conns :
            FullyRead(k) =>
              /\ conns[k].stage = "accepted"
              /\ conns[k].ran = <<>>
              /\ conns[k].s2c = EmptyStream
              /\ cl[conns[k].owner].pc = "receive"
              /\ cl[conns[k].owner].result = NoResult
              /\ state' = state
              /\ (conns'[k].copen /\ fault' \notin {"server read"}) =>
                   /\ srv' = srv
                   /\ conns'[k] = conns[k]
                   /\ cl'[conns[k].owner] = cl[conns[k].owner]
      ]_vars

\* the server has read the two buffers of a frame of 2 * BufLen bytes, the
\* second after it arrived apart; its client waits, and so does another
\* client, whose connection is not accepted
C22_Witness ==
    /\ Len(conns) = 2
    /\ FullyRead(1)
    /\ Len(srv.return_bytes) = 2 * BufLen
    /\ cl[1].pc = "receive"
    /\ conns[2].stage = "pending"
    /\ cl[2].pc = "receive"
    /\ fault = ""

\* the server's receive on connection k waits in read: nothing has arrived
\* and the peer's end is open
Waiting(k) ==
    /\ srv.cur = k
    /\ srv.pc = "receive"
    /\ conns[k].copen
    /\ conns[k].c2s.buf = <<>>

LiveMenu ==
    [c \in Clients |->
        IF c = 1 THEN {Call("GetI", Unit, "usize"), Call("PreciseRpc", Unit, "unit")}
        ELSE {Call("IncrI", Unit, "unit")}]

InitLive ==
    /\ rpcs = ServeRegistry
    /\ state = [i |-> InitCount]
    /\ regs = <<>>
    /\ ncall = 0
    /\ last = [op |-> "none", name |-> "", impl |-> "", bytes |-> <<>>,
               pre |-> [i |-> InitCount], out |-> NoOutcome]
    /\ frame = NoFrame
    /\ InitServe(LiveMenu)

SpecLive == InitLive /\ [][Next]_vars /\ WF_vars(ServerAccept)

\* the pending connection that accept returns next: the first to have connected
NextPending == CHOOSE j \in Pending : \A m \in Pending : j <= m

\* C24: the serve task leaves its loop by no step of its own: past the bind
\* it is at accept or inside handle_connection, or it has panicked in the
\* decode or the dispatch of a connection; every step that ends the handling
\* of a connection, with the response written or with an error printed, puts
\* it back at accept with the listener bound; and whenever it is at accept
\* with a connection pending, it accepts that connection.
C24_ServeLoops ==
    /\ [][/\ srv'.pc \in {"start", "accept", "receive", "decode", "dispatch",
                          "locked", "respond", "panicked"}
          /\ (srv.pc # "start" /\ srv.pc # "panicked") => srv'.pc # "start"
          /\ (srv.pc # "panicked" /\ srv'.pc = "panicked") =>
               srv.pc \in {"start", "decode", "locked"}
          /\ (srv.pc \in {"receive", "respond"} /\ srv'.pc \notin {srv.pc, "decode"}) =>
               /\ srv'.pc = "accept"
               /\ listener' = "bound"
               /\ ~conns'[srv.cur].sopen
               /\ conns'[srv.cur].stage = "responded"
                    \/ Len(slog') = Len(slog) + 1
          /\ srv.pc = "accept" =>
               /\ srv'.pc \in {"accept", "receive"}
               /\ listener' = "bound"
               /\ srv'.pc = "receive" =>
                    /\ Pending # {}
                    /\ srv'.cur = NextPending
         ]_vars
    /\ \A k \in 1..MaxConns :
         (srv.pc = "accept" /\ Pending # {} /\ NextPending = k)
            ~> (srv.pc = "receive" /\ srv.cur = k)

\* serve has responded on the first connection, printed the error of the
\* second, and accepted the third
C24_Witness ==
    /\ Len(conns) = 3
    /\ conns[1].stage = "responded"
    /\ conns[2].fail \in {"receive", "send"}
    /\ Len(slog) = 1
    /\ srv.pc = "receive"
    /\ srv.cur = 3
    /\ listener = "bound"

\* C25: every key of the registry is the rpc_name of the operation stored
\* under it, and a dispatch of the rpc_name of a registered operation, with no
\* later registration under that name, reaches that operation.
C25_KeyIsOwnName ==
    /\ \A e \in rpcs : e.name = ImplName(e.impl)
    /\ \A k \in DOMAIN regs :
         (/\ last.op = "call"
          /\ last.name = ImplName(regs[k][2])
          /\ \A j \in (k + 1)..Len(regs) : regs[j][1] # last.name
          /\ Deserialize(last.bytes, QueryType(regs[k][2])).ok) =>
             /\ last.out.invoked # <<>>
             /\ last.out.invoked[1].impl = regs[k][2]

\* C26: no step of serve, of a client or of the network changes the
\* registry: through every dispatch, failed ones included, and every I/O
\* failure it holds the operations registered before serve was called, under
\* the same names.
C26_RegistryReadOnly ==
    [][/\ rpcs' = rpcs
       /\ {e.name : e \in rpcs'} = {e.name : e \in ServeRegistry}
       /\ \A e \in rpcs' : MapGet(ServeRegistry, e.name) = {e.impl}
      ]_vars

\* serve has responded on a connection, failed to respond on another, and
\* panicked in the dispatch of the handler that returns Err
C26_Witness ==
    /\ Len(conns) = 3
    /\ conns[1].stage = "responded"
    /\ conns[2].fail = "send"
    /\ conns[3].fail = "dispatch"
    /\ conns[3].ran # <<>>
    /\ srv.pc = "panicked"
    /\ rpcs = ServeRegistry

\* the connections whose request is a call that the server has responded
\* to and whose client has read nothing of the response yet
Unread ==
    {k \in DOMAIN conns :
        /\ conns[k].req.kind = "call"
        /\ conns[k].stage = "responded"
        /\ conns[k].copen
        /\ cl[conns[k].owner].pc = "receive"}

\* the bytes on their way to the client of connection k
ResponseBytes(k) == conns[k].s2c.buf \o conns[k].s2c.wire

\* C27, as the claim has it: the frame of a call is a wire package, and the
\* bytes the server writes back are a wire package too.
C27_ResponseIsPackage ==
    \A k \in Unread :
        /\ DeserializePackage(RequestBytes(conns[k].req)).ok
        /\ DeserializePackage(ResponseBytes(k)).ok

\* C27, amended: the frame of a call is a wire package of the encoded name
\* and the encoded query; the bytes the server writes back are the encoding
\* of the Response the handler returned and nothing else: they decode as the
\* Response type, and not as a wire package.
C27_ResponseIsBareEncoding ==
    \A k \in Unread :
        LET ran == conns[k].ran[1]
            r == Implement(ran.impl, [i |-> ran.i], ran.q)
            package == DeserializePackage(RequestBytes(conns[k].req))
        IN /\ package.ok
           /\ package.name_bytes = Serialize(NameVal(conns[k].req.name))
           /\ package.query_bytes = Serialize(conns[k].req.q)
           /\ ResponseBytes(k) = Serialize(r.resp)
           /\ Deserialize(ResponseBytes(k), ResponseType(ran.impl)) = Got(r.resp)
           /\ ~DeserializePackage(ResponseBytes(k)).ok

\* the server has responded to a GetI call and to a HelloWorld call; the
\* second response is on its way to the client, unread
C27_Witness ==
    /\ Len(conns) = 2
    /\ conns[1].req = Call("GetI", Unit, "usize")
    /\ conns[1].got.kind = "ok"
    /\ 2 \in Unread
    /\ conns[2].req = Call("HelloWorld", Str(Foo), "str")
    /\ conns[2].s2c.wire # <<>>

(***************************************************************************)
(* SpecChannel: the three calls of InternalTransport made directly on a    *)
(* CannedTestingTransport.  cl[c].pc names the call that returned last;    *)
(* sends and receives count the calls of send and of receive.              *)
(***************************************************************************)
\* TransportError::ReceiveError("Run out of receive count")
RunOut == [variant |-> "TransportError",
           detail |-> <<"ReceiveError", "Run out of receive count">>]

\* the bytes handed to send and to send_and_wait_for_response
ChannelBytes == {<<>>, Serialize(Str(Foo)), PackageBytes(Serialize(Unit), "GetI")}

\* CannedTestingTransport::send: Ok(())
CannedSend(c, b) ==
    /\ cl[c].sends <= MaxReceive
    /\ cl' = [cl EXCEPT ![c].pc = "sent", ![c].sends = @ + 1,
                        ![c].return_bytes = <<>>,
                        ![c].result = [kind |-> "ok", v |-> Unit, err |-> NoErr]]
    /\ UNCHANGED <<dispatchVars, frame, menu, listener, conns, srv, slog, nconn,
                   fault, lock, canned>>

\* CannedTestingTransport::send_and_wait_for_response called on its own
CannedAnswer(c, b) ==
    /\ cl' = [cl EXCEPT ![c].pc = "answered",
                        ![c].return_bytes =
                            CannedSendAndWait(canned[c].always_respond_with, b),
                        ![c].result = [kind |-> "ok", v |-> Unit, err |-> NoErr]]
    /\ UNCHANGED <<dispatchVars, frame, menu, listener, conns, srv, slog, nconn,
                   fault, lock, canned>>

\* a receive that gives the reply whatever the count is, and leaves the count
CannedReceiveAlways(c) ==
    /\ cl[c].receives <= MaxReceive
    /\ canned' = canned
    /\ cl' = [cl EXCEPT ![c].pc = "received", ![c].receives = @ + 1,
                ![c].return_bytes = Serialize(Str(canned[c].always_respond_with)),
                ![c].result = [kind |-> "ok", v |-> Unit, err |-> NoErr]]
    /\ UNCHANGED <<dispatchVars, frame, menu, listener, conns, srv, slog, nconn,
                   fault, lock>>

\* CannedTestingTransport::receive
CannedReceive(c) ==
    /\ cl[c].receives <= MaxReceive
    /\ IF canned[c].receive_times > 0
         THEN /\ canned' = [canned EXCEPT ![c].receive_times = @ - 1]
              /\ cl' = [cl EXCEPT ![c].pc = "received", ![c].receives = @ + 1,
                          ![c].return_bytes =
                              Serialize(Str(canned[c].always_respond_with)),
                          ![c].result = [kind |-> "ok", v |-> Unit, err |-> NoErr]]
         ELSE /\ canned' = canned
              /\ cl' = [cl EXCEPT ![c].pc = "received", ![c].receives = @ + 1,
                          ![c].return_bytes = <<>>,
                          ![c].result = [kind |-> "err", v |-> Unit, err |-> RunOut]]
    /\ UNCHANGED <<dispatchVars, frame, menu, listener, conns, srv, slog, nconn,
                   fault, lock>>

ChannelSend == \E c \in Clients, b \in ChannelBytes : CannedSend(c, b)
ChannelAnswer == \E c \in Clients, b \in ChannelBytes : CannedAnswer(c, b)
ChannelReceive == \E c \in Clients : CannedReceive(c)

NextChannel == ChannelSend \/ ChannelAnswer \/ ChannelReceive

SpecChannel == InitCanned /\ [][NextChannel]_vars

\* C28: on the canned channel no call opens a connection or touches the
\* network, and the reply never changes; send returns Ok and
\* send_and_wait_for_response returns the encoding of the reply, both leaving
\* the receive count as it is; receive returns the encoding of the reply and
\* takes one off the count while the count is above 0, and returns
\* ReceiveError with the count left at 0 once it is 0; the count never goes
\* below 0.
C28_CannedChannel ==
    [][/\ conns' = conns /\ listener' = listener /\ nconn' = nconn
       /\ fault' = fault /\ state' = state
       /\ \A c \in Clients :
            LET reply == Serialize(Str(canned[c].always_respond_with))
                ok == [kind |-> "ok", v |-> Unit, err |-> NoErr]
            IN /\ canned'[c].always_respond_with = canned[c].always_respond_with
               /\ canned'[c].receive_times >= 0
               /\ canned'[c].receive_times \in
                    {canned[c].receive_times, canned[c].receive_times - 1}
               /\ cl'[c].sends = cl[c].sends + 1 =>
                    /\ cl'[c].result = ok
                    /\ canned'[c] = canned[c]
                    /\ cl'[c].receives = cl[c].receives
               /\ (cl'[c] # cl[c] /\ cl'[c].pc = "answered") =>
                    /\ cl'[c].result = ok
                    /\ cl'[c].return_bytes = reply
                    /\ Deserialize(cl'[c].return_bytes, "str")
                         = Got(Str(canned[c].always_respond_with))
                    /\ canned'[c] = canned[c]
                    /\ cl'[c].receives = cl[c].receives
               /\ cl'[c].receives = cl[c].receives + 1 =>
                    IF canned[c].receive_times > 0
                      THEN /\ cl'[c].result = ok
                           /\ cl'[c].return_bytes = reply
                           /\ canned'[c].receive_times
                                = canned[c].receive_times - 1
                      ELSE /\ cl'[c].result.kind = "err"
                           /\ cl'[c].result.err = RunOut
                           /\ canned'[c].receive_times = 0
               /\ cl'[c].receives = cl[c].receives =>
                    canned'[c] = canned[c]
      ]_vars

\* client 1 has made one receive more than its count of MaxReceive: the last
\* failed and the count is 0; client 2, whose count was 0 as in client_test,
\* got the reply from send_and_wait_for_response
C28_Witness ==
    /\ cl[1].receives = MaxReceive + 1
    /\ cl[1].pc = "received"
    /\ cl[1].result.err = RunOut
    /\ canned[1].receive_times = 0
    /\ cl[1].sends = 1
    /\ canned[2] = [always_respond_with |-> FooBar, receive_times |-> 0]
    /\ cl[2].pc = "answered"
    /\ cl[2].receives = 1
    /\ cl[2].return_bytes = Serialize(Str(FooBar))

\* C29: once bind has returned Err the serve task has ended, in the unwrap:
\* there is no listener, so no connection exists or is accepted, no handler
\* has run, nothing was printed by the loop, the lock was never taken and the
\* state is the one serve was given; every call_client gets ConnectError.
C29_BindFailureStops ==
    (srv.pc # "start" /\ listener = "unbound") =>
        /\ srv = [IdleServer EXCEPT !.pc = "panicked"]
        /\ conns = <<>>
        /\ state = [i |-> InitCount]
        /\ slog = <<>>
        /\ lock = {}
        /\ fault = ""
        /\ \A c \in Clients :
             /\ cl[c].pc = "idle"
             /\ cl[c].result \in {NoResult, ConnectFailed}
             /\ cl[c].sends = 0 /\ cl[c].receives = 0

\* bind failed, and every call_client made since was refused
C29_Witness ==
    /\ srv.pc = "panicked"
    /\ listener = "unbound"
    /\ nconn = MaxConns
    /\ cl[1].result = ConnectFailed
    /\ cl[2].result = ConnectFailed
    /\ state = [i |-> InitCount]

\* C30: a dispatch whose handler changed the state and returned Err leaves
\* the state as the handler left it, and returns that Err and no bytes; the
\* state changes in no other step, and the next dispatch starts from it: its
\* handler is invoked on the state the failed one left.
C30_NoRollback ==
    [][/\ ncall' = ncall => state' = state
       /\ ncall' = ncall + 1 =>
            /\ last'.op = "call"
            /\ last'.pre = state
            /\ state' = last'.out.state
            /\ \A k \in DOMAIN last'.out.invoked : last'.out.invoked[k].i = state.i
            /\ \A h \in Impls :
                 (/\ LastRegistered(regs, last'.name) = h
                  /\ Deserialize(last'.bytes, QueryType(h)).ok) =>
                    LET q == Deserialize(last'.bytes, QueryType(h)).v
                        r == Implement(h, state, q)
                    IN ~r.ok =>
                         /\ state' = r.state
                         /\ h = "Faulty" => state'.i = state.i + 1
                         /\ last'.out.kind = "err"
                         /\ last'.out.err = r.err
                         /\ last'.out.bytes = <<>>
      ]_vars

\* the handler that fails and GetI are the two operations registered; the
\* first dispatch ran the one and returned Err, the second ran the other,
\* which answered with the count the first had left
C30_Witness ==
    /\ Len(regs) = 2
    /\ {regs[1][2], regs[2][2]} = {"Faulty", "GetI"}
    /\ ncall = 2
    /\ last.op = "call"
    /\ LastRegistered(regs, last.name) = "GetI"
    /\ last.pre.i = InitCount + 1
    /\ last.out.kind = "ok"
    /\ Deserialize(last.out.bytes, "usize") = Got(Usize(InitCount + 1))

\* the peer of connection k has closed its end and no byte of it is left to
\* arrive or to read
ClosedUnsent(k) ==
    /\ ~conns[k].copen
    /\ conns[k].c2s = EmptyStream

\* C31: on a connection whose peer closed without sending a byte, the read
\* of the server's receive returns no bytes and the receive returns Ok with
\* the empty byte sequence: nothing is printed and the connection is not
\* marked with a receive failure; the failure comes in the step after, the
\* decoding of the empty bytes as a wire package.  A receive failure is
\* recorded on a connection only when a read returned Err.
C31_EmptyReceiveFailsAtDecode ==
    [][/\ (/\ srv.pc = "receive"
           /\ srv.return_bytes = <<>>
           /\ ClosedUnsent(srv.cur)
           /\ srv' # srv
           /\ fault' = fault) =>
              /\ srv'.pc = "decode"
              /\ srv'.return_bytes = <<>>
              /\ slog' = slog
              /\ conns'[srv.cur].stage = "received"
              /\ conns'[srv.cur].fail = ""
       /\ (srv.pc = "decode" /\ srv.return_bytes = <<>> /\ srv' # srv) =>
              /\ ~DeserializePackage(srv.return_bytes).ok
              /\ conns'[srv.cur].fail = "decode"
              /\ conns'[srv.cur].ran = <<>>
              /\ slog' = slog
              /\ state' = state
       /\ \A k \in DOMAIN conns' :
            conns'[k].fail = "receive" =>
              \/ (k \in DOMAIN conns /\ conns[k].fail = "receive")
              \/ (fault = "" /\ fault' = "server read")
      ]_vars

\* the send of the first call failed and its connection was closed with
\* nothing sent; the server accepted it, received the empty bytes and failed
\* in the decoding
C31_Witness ==
    /\ Len(conns) >= 1
    /\ fault = "client write"
    /\ conns[1].got.err = TransportErr("SendError")
    /\ conns[1].stage = "received"
    /\ conns[1].fail = "decode"
    /\ srv.cur = 1
    /\ srv.return_bytes = <<>>
    /\ slog = <<>>

====
